---- MODULE Spec2Model ----
(***************************************************************************)
(* Submarine swap between an on-chain Taproot HTLC and an RLN HODL         *)
(* invoice: the USER role (runUserFlow: runDeposit, publish, settle), the  *)
(* LP role (runLpFlow: waitForSubmarineData, runLpOperatorFlow), the       *)
(* submarine-data comm server, and the Bitcoin node and RLN node they      *)
(* talk to.  One action per stretch of code between two awaited calls.     *)
(***************************************************************************)
EXTENDS Integers, Sequences, FiniteSets, TLC

(***************************************************************************)
(* Bounds of the model.                                                    *)
(***************************************************************************)
\* highest chain height the node reaches
MaxHeight == 10
\* attempts of every polling loop (120, 1800 and 61 in the code)
MaxAttempts == 2
\* POST /submarine requests served by the comm server
MaxPosts == 1
\* confirmations are counted up to this number ("this many or more")
ConfsCap == 2
\* the chain height when the USER starts
StartHeight == 1
\* bytes of a leaf hash (32 in the code) and the highest value of a byte
HashBytes == 2
MaxByte == 2
\* calls of deriveDeterministicInternalKey in one run
MaxKeyCalls == 2

(***************************************************************************)
(* Program constants.                                                      *)
(***************************************************************************)
BLOCK_TARGET_SEC == 600
TIMECUSHION_SEC == 3600
P2TR_DUST_SAT == 330
DUST_LIMIT_SAT == 330
MIN_CLAIM_FEE_SAT == 1000
ESTIMATED_INPUT_VBYTES == 120
P2TR_OUTPUT_VBYTES == 43
\* TX_OVERHEAD_VBYTES is 10.5: vbytes are counted in halves
TX_OVERHEAD_HALF_VBYTES == 21
INTERNAL_KEY_MAX_ATTEMPTS == 256
MSAT_PER_SAT == 1000

(***************************************************************************)
(* Values.                                                                 *)
(***************************************************************************)
None == "none"
\* absent values of each shape
NoHash == "none"
NoInvoice == [hrp |-> None, h |-> NoHash, msat |-> 0]
NoAddress == <<>>
NoFunding == [txid |-> None, vout |-> 0, value |-> 0]
NoRecord == [payment_hash |-> NoHash, preimage |-> None, amount_msat |-> 0,
             expiry_sec |-> 0, invoice |-> NoInvoice]
NoData == [invoice |-> NoInvoice, fundingTxid |-> None, fundingVout |-> 0,
           userRefundPubkeyHex |-> None, tLock |-> 0]

\* the 32-byte values, as 64 hex characters
Preimages == {"pA", "pB"}
\* randomBytes(32): the value the USER draws; every other one behaves alike
RandomBytes == {"pA"}
\* a string that is not 64 hex characters
MalformedPreimage == "zz"

\* createHash('sha256'): injective, and no digest is itself a preimage
sha256hex(p) == "sha256:" \o p

\* /^[0-9a-fA-F]{64}$/ on a payment hash
IsValidPaymentHash(h) == \E p \in Preimages : h = sha256hex(p)

\* /^[0-9a-fA-F]{64}$/ on a preimage
IsValidPreimage(p) == p \in Preimages

UserPubkey == "userPk"
LpPubkey == "lpPk"
ValidPubkeys == {UserPubkey, LpPubkey}

\* 66 hex characters, 02/03 prefix, a point of the curve
IsValidCompressedPubkey(pk) == pk \in ValidPubkeys

\* drops the prefix byte
getXOnlyHex(pk) == "x:" \o pk

FundingTxid == "txD"

Amounts == {100, 1329, 1330}

\* the runs: the kind of environment and the amount typed at the prompt
Runs == ({"happy"} \X Amounts) \cup ({"faulty"} \X {100, 1330})

\* the USER's configurations: (LOCKTIME_BLOCKS, HODL_EXPIRY_SEC)
UserConfigs ==
  { [LOCKTIME_BLOCKS |-> l, HODL_EXPIRY_SEC |-> e, MIN_CONFS |-> 1,
     LP_PUBKEY_HEX |-> LpPubkey] :
      <<l, e>> \in {<<6, 600>>, <<7, 600>>, <<8, 600>>, <<8, 1200>>} }

\* the LP's configuration; WIF stands for the key pair it decodes to
LpConfigs ==
  { [LOCKTIME_BLOCKS |-> 8, MIN_CONFS |-> 1, LP_PUBKEY_HEX |-> LpPubkey,
     WIF |-> LpPubkey, FEE_RATE_SAT_PER_VB |-> 1] }

Max(a, b) == IF a >= b THEN a ELSE b
Min(a, b) == IF a <= b THEN a ELSE b
CeilDiv(a, b) == (a + b - 1) \div b

(***************************************************************************)
(* HTLC script construction (htlc_p2tr.ts).                                *)
(***************************************************************************)
buildClaimTapscript(paymentHash, lpPubkey) ==
  <<"OP_SHA256", paymentHash, "OP_EQUALVERIFY", getXOnlyHex(lpPubkey), "OP_CHECKSIG">>

buildRefundTapscript(cltvExpiry, userPubkey) ==
  <<ToString(cltvExpiry), "OP_CHECKLOCKTIMEVERIFY", "OP_DROP", getXOnlyHex(userPubkey), "OP_CHECKSIG">>

\* OP_1 and the output key, which commits to both leaves
reconstructP2TRScriptPubKey(t) ==
  <<<<"OP_1">>, buildClaimTapscript(t.payment_hash, t.lp_pubkey),
               buildRefundTapscript(t.cltv_expiry, t.user_pubkey)>>

Includes(script, item) == \E i \in 1..Len(script) : script[i] = item

(***************************************************************************)
(* The script tree (htlc_p2tr.ts).  A leaf hash is a string of bytes; the  *)
(* digest of a tagged hash stands for what was hashed.                     *)
(***************************************************************************)
\* Buffer.compare: by the first byte that differs, then by the length
BufferCompare(a, b) ==
  LET n == Min(Len(a), Len(b))
      differ == {i \in 1..n : a[i] # b[i]} IN
  IF differ # {}
  THEN LET i == CHOOSE j \in differ : \A k \in differ : j <= k IN
       IF a[i] < b[i] THEN -1 ELSE 1
  ELSE IF Len(a) < Len(b) THEN -1
  ELSE IF Len(a) > Len(b) THEN 1
  ELSE 0

\* bitcoin.crypto.taggedHash: no two inputs have the same digest
taggedHash(tag, data) == <<tag, data>>

NoRoot == <<>>

\* a root hashed in the order the leaves are given in
computeRootInGivenOrder(leafHashes) ==
  IF Len(leafHashes) = 0 THEN [error |-> "NoLeaf", root |-> NoRoot]
  ELSE IF Len(leafHashes) = 1 THEN [error |-> None, root |-> leafHashes[1]]
  ELSE IF Len(leafHashes) # 2 THEN [error |-> "NotTwoLeaves", root |-> NoRoot]
  ELSE [error |-> None,
        root |-> taggedHash("TapBranch", leafHashes[1] \o leafHashes[2])]

computeTaprootTreeRoot(leafHashes) ==
  IF Len(leafHashes) = 0 THEN [error |-> "NoLeaf", root |-> NoRoot]
  ELSE IF Len(leafHashes) = 1 THEN [error |-> None, root |-> leafHashes[1]]
  ELSE IF Len(leafHashes) # 2 THEN [error |-> "NotTwoLeaves", root |-> NoRoot]
  ELSE LET left == IF BufferCompare(leafHashes[1], leafHashes[2]) <= 0
                   THEN leafHashes[1] ELSE leafHashes[2]
           right == IF BufferCompare(leafHashes[1], leafHashes[2]) <= 0
                    THEN leafHashes[2] ELSE leafHashes[1] IN
       [error |-> None, root |-> taggedHash("TapBranch", left \o right)]

\* a tweak that leaves the internal key out of the hash
computeTapTweakOfRootOnly(internalKey, treeRoot) ==
  taggedHash("TapTweak", <<treeRoot>>)

\* tagged_hash("TapTweak", internal_key || tree_root)
computeTapTweak(internalKey, treeRoot) ==
  taggedHash("TapTweak", <<internalKey, treeRoot>>)

\* ecc.xOnlyPointAddTweak(internalKey, tapTweak)
computeTaprootOutputKey(internalKey, treeRoot) ==
  <<"xOnlyPointAddTweak", internalKey, computeTapTweak(internalKey, treeRoot)>>

\* bitcoin.script.compile([OP_1, outputKey])
compileP2TR(outputKey) == <<"OP_1", outputKey>>

(***************************************************************************)
(* The internal key (htlc_p2tr.ts).                                        *)
(***************************************************************************)
\* Buffer.from(INTERNAL_KEY_CONSTANT, 'utf8')
INTERNAL_KEY_CONSTANT == <<"HODL_INVOICE_P2TR_HTLC_INTERNAL_KEY_v0">>

\* four bytes, the lowest one first
writeUInt32LE(n) ==
  <<n % 256, (n \div 256) % 256, (n \div 65536) % 256, (n \div 16777216) % 256>>

\* Buffer.alloc(4) after writeUInt32BE(n, 0): four bytes, the highest one first
writeUInt32BE(n) ==
  <<(n \div 16777216) % 256, (n \div 65536) % 256, (n \div 256) % 256, n % 256>>

\* bitcoin.crypto.sha256: no two inputs have the same digest
sha256(data) == <<"sha256", data>>

NoKey == <<>>

\* what an attempt of deriveDeterministicInternalKey hashes
attemptData(attempt) ==
  LET seed == INTERNAL_KEY_CONSTANT
      attemptBuf == writeUInt32BE(attempt) IN
  IF attempt = 0 THEN seed ELSE seed \o attemptBuf

(***************************************************************************)
(* State.                                                                  *)
(***************************************************************************)
VARIABLES
  env,            \* "happy": every call succeeds, the RLN is truthful; "faulty"
  amountSat,      \* the amount typed at the prompt
  cfgU, cfgL,     \* the two roles' configurations
  height,         \* chain tip
  htlc,           \* the HTLC output on chain
  rln,            \* the RLN: the HODL invoice and its payment
  submarineData,  \* comm-server.ts: the served record
  posts,          \* POST /submarine requests served so far
  hodlStore,      \* the HODL record store
  user,           \* the USER process
  lp,             \* the LP process
  calls,          \* what the two roles have called so far
  taproot,        \* htlc_p2tr.ts on its own: the inputs of a computation of
                  \* the Taproot construction and its results so far
  comm,           \* comm-client.ts on its own: a call of waitForSubmarineData
  watch           \* watch.ts on its own: a call of waitForFunding and what
                  \* runUserFlow publishes from its result

vars == <<env, amountSat, cfgU, cfgL, height, htlc, rln, submarineData, posts,
          hodlStore, user, lp, calls, taproot, comm, watch>>

\* no computation is followed on its own
NoTaproot == <<>>

\* no call of waitForSubmarineData is followed on its own
NoWait == <<>>

\* no call of waitForFunding is followed on its own
NoWatch == <<>>

NoHtlc == [state |-> "none", spk |-> NoAddress, value |-> 0, minedAt |-> 0]

NoSettle == [settled |-> FALSE, status |-> None]

InitUser ==
  [pc |-> "start", error |-> None, preimage |-> None, H |-> NoHash,
   invoice |-> NoInvoice, tLock |-> 0, address |-> NoAddress, funding |-> NoFunding,
   attempt |-> 0, status |-> None, settle |-> NoSettle,
   invoiceStatus |-> None]

NoDecoded == [payment_hash |-> NoHash, amt_msat |-> 0]

NoTemplate == [payment_hash |-> NoHash, lp_pubkey |-> None, user_pubkey |-> None,
               cltv_expiry |-> 0]

NoFundingInfo == [error |-> None, txid |-> None, vout |-> 0, amount_sat |-> 0,
                  confirmations |-> 0, script_pubkey_hex |-> NoAddress,
                  expected_script_pubkey_hex |-> NoAddress]

NoClaim == [txid |-> None, input |-> None, script |-> NoAddress,
            witness |-> <<>>, finalScriptWitness |-> <<>>, value |-> 0,
            fee_sat |-> 0]

NoResult == [status |-> None, claim_txid |-> None]

InitLp ==
  [pc |-> "fetch", error |-> None, attempt |-> 0, data |-> NoData,
   decoded |-> NoDecoded, template |-> NoTemplate, fundingInfo |-> NoFundingInfo,
   finalStatus |-> None, preimage |-> None, claim |-> NoClaim,
   result |-> NoResult]

InitCalls ==
  [invoiceHodl |-> 0, persist |-> 0, getBlockCount |-> 0, sendDeposit |-> 0,
   publish |-> {}, settle |-> {}, verify |-> 0, pay |-> 0, broadcast |-> {},
   exhausted |-> {}, polled |-> {}, invoiceSettle |-> <<>>,
   payResult |-> None, claim |-> <<>>]

Init ==
  /\ \E run \in Runs :
       /\ env = run[1]
       /\ amountSat = run[2]
  /\ cfgU \in UserConfigs
  /\ cfgL \in LpConfigs
  /\ height = StartHeight
  /\ htlc = NoHtlc
  /\ rln = [invoice |-> NoInvoice, payment |-> "none", preimage |-> None]
  /\ submarineData = NoData
  /\ posts = 0
  /\ hodlStore = NoRecord
  /\ user = InitUser
  /\ lp = InitLp
  /\ calls = InitCalls
  /\ taproot = NoTaproot
  /\ comm = NoWait
  /\ watch = NoWatch

\* what an awaited adapter call may do
Outcomes == IF env = "happy" THEN {"ok"} ELSE {"ok", "throw"}

UserFails(err) == user' = [user EXCEPT !.pc = "failed", !.error = err]
LpFails(err) == lp' = [lp EXCEPT !.pc = "failed", !.error = err]

(***************************************************************************)
(* USER: runDeposit (orchestrator.ts).                                     *)
(***************************************************************************)
\* a timelock check that lets the boundary pass
TimelockStrictlyBelow(cfg) ==
  cfg.LOCKTIME_BLOCKS * BLOCK_TARGET_SEC < cfg.HODL_EXPIRY_SEC + TIMECUSHION_SEC

\* the timelock check of runDeposit
TimelockTooLow(cfg) ==
  cfg.LOCKTIME_BLOCKS * BLOCK_TARGET_SEC <= cfg.HODL_EXPIRY_SEC + TIMECUSHION_SEC

\* checks that leave out the dust limit
DepositPrecheckWithoutDust(amount, cfg) ==
  IF amount <= 0 THEN "AmountNotPositive"
  ELSE IF TimelockTooLow(cfg) THEN "ConfigError"
  ELSE IF cfg.LP_PUBKEY_HEX = None THEN "LpPubkeyMissing"
  ELSE None

\* the checks of runDeposit before its first call: the error, or None
DepositPrecheck(amount, cfg) ==
  IF amount <= 0 THEN "AmountNotPositive"
  ELSE IF amount < P2TR_DUST_SAT THEN "AmountBelowDust"
  ELSE IF TimelockTooLow(cfg) THEN "ConfigError"
  ELSE IF cfg.LP_PUBKEY_HEX = None THEN "LpPubkeyMissing"
  ELSE None

\* an invoice string, by what decoding it gives
Invoice(h, msat) == [hrp |-> "lnbc", h |-> h, msat |-> msat]

\* an invoiceHodl request that carries the preimage next to the hash
UserCreateInvoiceWithPreimage ==
  /\ user.pc = "start"
  /\ LET err == DepositPrecheck(amountSat, cfgU) IN
     IF err # None
     THEN /\ UserFails(err)
          /\ UNCHANGED <<rln, calls>>
     ELSE \E p \in RandomBytes, o \in Outcomes :
            LET H == sha256hex(p)
                amountMsat == amountSat * MSAT_PER_SAT IN
            /\ calls' = [calls EXCEPT !.invoiceHodl = @ + 1]
            /\ IF o = "throw"
               THEN /\ UserFails("RlnError")
                    /\ UNCHANGED rln
               ELSE /\ rln' = [rln EXCEPT !.invoice = Invoice(H, amountMsat),
                                      !.preimage = p]
                    /\ user' = [user EXCEPT !.pc = "persist", !.preimage = p,
                                            !.H = H, !.invoice = Invoice(H, amountMsat)]
  /\ UNCHANGED <<watch, comm, taproot, env, amountSat, cfgU, cfgL, height, htlc, submarineData, posts,
                 hodlStore, lp>>

\* runUserFlow up to runDeposit's rln.invoiceHodl
UserCreateInvoice ==
  /\ user.pc = "start"
  /\ LET err == DepositPrecheck(amountSat, cfgU) IN
     IF err # None
     THEN /\ UserFails(err)
          /\ UNCHANGED <<rln, calls>>
     ELSE \E p \in RandomBytes, o \in Outcomes :
            LET H == sha256hex(p)
                amountMsat == amountSat * MSAT_PER_SAT IN
            /\ calls' = [calls EXCEPT !.invoiceHodl = @ + 1]
            /\ IF o = "throw"
               THEN /\ UserFails("RlnError")
                    /\ UNCHANGED rln
               ELSE /\ rln' = [rln EXCEPT !.invoice = Invoice(H, amountMsat)]
                    /\ user' = [user EXCEPT !.pc = "persist", !.preimage = p,
                                            !.H = H, !.invoice = Invoice(H, amountMsat)]
  /\ UNCHANGED <<watch, comm, taproot, env, amountSat, cfgU, cfgL, height, htlc, submarineData, posts,
                 hodlStore, lp>>

\* a persist whose failure is logged and not rethrown
UserPersistSwallowsError ==
  /\ user.pc = "persist"
  /\ \E o \in Outcomes :
       /\ calls' = [calls EXCEPT !.persist = @ + 1]
       /\ hodlStore' =
            IF o = "throw" THEN hodlStore
            ELSE [payment_hash |-> user.H, preimage |-> user.preimage,
                  amount_msat |-> amountSat * MSAT_PER_SAT,
                  expiry_sec |-> cfgU.HODL_EXPIRY_SEC, invoice |-> user.invoice]
       /\ user' = [user EXCEPT !.pc = "tip"]
  /\ UNCHANGED <<watch, comm, taproot, env, amountSat, cfgU, cfgL, height, htlc, rln, submarineData,
                 posts, lp>>

\* await persist({...})
UserPersist ==
  /\ user.pc = "persist"
  /\ \E o \in Outcomes :
       /\ calls' = [calls EXCEPT !.persist = @ + 1]
       /\ IF o = "throw"
          THEN /\ UserFails("PersistError")
               /\ UNCHANGED hodlStore
          ELSE /\ hodlStore' = [payment_hash |-> user.H, preimage |-> user.preimage,
                                amount_msat |-> amountSat * MSAT_PER_SAT,
                                expiry_sec |-> cfgU.HODL_EXPIRY_SEC,
                                invoice |-> user.invoice]
               /\ user' = [user EXCEPT !.pc = "tip"]
  /\ UNCHANGED <<watch, comm, taproot, env, amountSat, cfgU, cfgL, height, htlc, rln, submarineData,
                 posts, lp>>

\* an HTLC built for the hash of a preimage drawn anew
UserBuildHtlcDrawsAgain ==
  /\ user.pc = "tip"
  /\ \E o \in Outcomes :
       /\ calls' = [calls EXCEPT !.getBlockCount = @ + 1]
       /\ IF o = "throw"
          THEN UserFails("RpcError")
          ELSE \E p \in Preimages \ {user.preimage} :
               LET tLock == height + cfgU.LOCKTIME_BLOCKS
                   t == [payment_hash |-> sha256hex(p),
                         lp_pubkey |-> cfgU.LP_PUBKEY_HEX,
                         user_pubkey |-> UserPubkey, cltv_expiry |-> tLock] IN
               user' = [user EXCEPT !.pc = "deposit", !.tLock = tLock,
                                    !.address = reconstructP2TRScriptPubKey(t)]
  /\ UNCHANGED <<watch, comm, taproot, env, amountSat, cfgU, cfgL, height, htlc, rln,
                 submarineData, posts, hodlStore, lp>>

\* await rpcClient.getBlockCount(); tLock; buildP2tr
UserBuildHtlc ==
  /\ user.pc = "tip"
  /\ \E o \in Outcomes :
       /\ calls' = [calls EXCEPT !.getBlockCount = @ + 1]
       /\ IF o = "throw"
          THEN UserFails("RpcError")
          ELSE LET tLock == height + cfgU.LOCKTIME_BLOCKS
                   t == [payment_hash |-> user.H, lp_pubkey |-> cfgU.LP_PUBKEY_HEX,
                         user_pubkey |-> UserPubkey, cltv_expiry |-> tLock] IN
               user' = [user EXCEPT !.pc = "deposit", !.tLock = tLock,
                                    !.address = reconstructP2TRScriptPubKey(t)]
  /\ UNCHANGED <<watch, comm, taproot, env, amountSat, cfgU, cfgL, height, htlc, rln, submarineData,
                 posts, hodlStore, lp>>

\* a deposit whose failure does not stop the wait for the funding
UserSendDepositGoesOn ==
  /\ user.pc = "deposit"
  /\ \E o \in Outcomes :
       /\ calls' = [calls EXCEPT !.sendDeposit = @ + 1]
       /\ htlc' = IF o = "throw" THEN htlc
                  ELSE [state |-> "mempool", spk |-> user.address,
                        value |-> amountSat, minedAt |-> 0]
       /\ user' = [user EXCEPT !.pc = "waitFunding", !.attempt = 0]
  /\ UNCHANGED <<watch, comm, taproot, env, amountSat, cfgU, cfgL, height, rln, submarineData, posts,
                 hodlStore, lp>>

\* await sendDeposit(address, amountSat)
UserSendDeposit ==
  /\ user.pc = "deposit"
  /\ \E o \in Outcomes :
       /\ calls' = [calls EXCEPT !.sendDeposit = @ + 1]
       /\ IF o = "throw"
          THEN /\ UserFails("DepositError")
               /\ UNCHANGED htlc
          ELSE /\ htlc' = [state |-> "mempool", spk |-> user.address,
                           value |-> amountSat, minedAt |-> 0]
               /\ user' = [user EXCEPT !.pc = "waitFunding", !.attempt = 0]
  /\ UNCHANGED <<watch, comm, taproot, env, amountSat, cfgU, cfgL, height, rln, submarineData, posts,
                 hodlStore, lp>>

(***************************************************************************)
(* The chain.                                                              *)
(***************************************************************************)
\* confirmations getRawTransaction reports for the deposit transaction
Confirmations(h, c) ==
  IF c.state \in {"mined", "claimed"} THEN Min(h - c.minedAt + 1, ConfsCap) ELSE 0

\* a block is found; it includes the deposit when it waits in the mempool.
\* Blocks found before the deposit only shift the heights: the start height
\* stands for them.
Mine ==
  /\ height < MaxHeight
  /\ htlc.state # "none"
  /\ height' = height + 1
  /\ htlc' = IF htlc.state = "mempool"
             THEN [htlc EXCEPT !.state = "mined", !.minedAt = height + 1]
             ELSE htlc
  /\ UNCHANGED <<watch, comm, taproot, env, amountSat, cfgU, cfgL, rln, submarineData, posts,
                 hodlStore, user, lp, calls>>

(***************************************************************************)
(* The submarine-data channel (comm-server.ts).                            *)
(***************************************************************************)
\* publishSubmarineData(data)
publishSubmarineData(data) == submarineData' = data

(***************************************************************************)
(* USER: waitForFunding, then publication (watch.ts, index.ts).            *)
(***************************************************************************)
\* one scan of waitForFunding: the funding it returns, or NoFunding
ScanForFunding(address, minConfs, h, c) ==
  IF /\ c.state = "mined"
     /\ c.spk = address
     /\ Confirmations(h, c) >= minConfs
  THEN [txid |-> FundingTxid, vout |-> 0, value |-> c.value]
  ELSE NoFunding

\* the first scan and the MaxAttempts scans of the fallback loop; when a scan
\* finds the funding, runDeposit returns and runUserFlow publishes at once
UserWaitFunding ==
  /\ user.pc = "waitFunding"
  /\ \E o \in Outcomes :
       LET found == IF o = "throw" THEN NoFunding
                    ELSE ScanForFunding(user.address, cfgU.MIN_CONFS, height, htlc) IN
       IF found # NoFunding
       THEN /\ user' = [user EXCEPT !.pc = "loadRecord", !.funding = found,
                                    !.attempt = 0]
            /\ publishSubmarineData(
                 [invoice |-> user.invoice, fundingTxid |-> found.txid,
                  fundingVout |-> found.vout, userRefundPubkeyHex |-> UserPubkey,
                  tLock |-> user.tLock])
            /\ calls' = [calls EXCEPT !.publish = @ \cup {submarineData'},
                                      !.polled = @ \cup {"waitForFunding"}]
       ELSE /\ IF user.attempt < MaxAttempts
               THEN /\ user' = [user EXCEPT !.attempt = @ + 1]
                    /\ calls' = [calls EXCEPT !.polled = @ \cup {"waitForFunding"}]
               ELSE /\ UserFails("FundingTimeout")
                    /\ calls' = [calls EXCEPT !.exhausted = @ \cup {"waitForFunding"},
                                              !.polled = @ \cup {"waitForFunding"}]
            /\ UNCHANGED submarineData
  /\ UNCHANGED <<watch, comm, taproot, env, amountSat, cfgU, cfgL, height, htlc, rln, posts,
                 hodlStore, lp>>

(***************************************************************************)
(* The RLN node (rln/client.ts, rln/types.ts).  rln.payment is the HODL    *)
(* payment: "none", "held" (the LP paid, the HTLC waits for the preimage), *)
(* "settled" or "failed".  A happy node answers what is the case; a faulty *)
(* one may answer anything, except that it learns the preimage only from   *)
(* invoiceSettle and so cannot report it earlier.                          *)
(***************************************************************************)
PaymentStatuses == {"Pending", "Claimable", "Succeeded", "Cancelled", "Failed"}

\* the request failed (an HTTP error, no such payment)
PaymentThrow == [inbound |-> FALSE, status |-> "throw"]

\* GET /getpayment on the USER's node: a payment, or PaymentThrow
GetPaymentResponses ==
  IF env = "happy"
  THEN CASE rln.payment = "none" -> {PaymentThrow}
         [] rln.payment = "held" -> {[inbound |-> TRUE, status |-> "Claimable"]}
         [] rln.payment = "settled" -> {[inbound |-> TRUE, status |-> "Succeeded"]}
         [] OTHER -> {[inbound |-> TRUE, status |-> "Failed"]}
  ELSE {PaymentThrow} \cup [inbound : BOOLEAN, status : PaymentStatuses]

InvoiceStatuses == {"Pending", "Succeeded", "Cancelled", "Failed", "Expired"}

\* POST /invoicestatus on the USER's node
InvoiceStatusResponses ==
  IF env = "happy"
  THEN CASE rln.payment = "settled" -> {"Succeeded"}
         [] rln.payment = "failed" -> {"Failed"}
         [] OTHER -> {"Pending"}
  ELSE {"throw"} \cup InvoiceStatuses

\* the node on POST /invoicesettle: it settles a held payment whose hash the
\* preimage opens
RlnSettle(r, paymentHash, preimage) ==
  IF /\ r.payment = "held"
     /\ r.invoice # NoInvoice
     /\ r.invoice.h = paymentHash
     /\ sha256hex(preimage) = paymentHash
  THEN [r EXCEPT !.payment = "settled", !.preimage = preimage]
  ELSE r

(***************************************************************************)
(* USER: runUserSettleHodlInvoice, runUserWaitInvoiceStatus.               *)
(***************************************************************************)
\* await loadHodlRecord(paymentHash)
UserLoadRecord ==
  /\ user.pc = "loadRecord"
  /\ \E o \in Outcomes :
       IF o = "throw" THEN UserFails("StoreError")
       ELSE IF hodlStore.payment_hash # user.H THEN UserFails("NoHodlRecord")
       ELSE user' = [user EXCEPT !.pc = "pollPayment", !.attempt = 0,
                                 !.status = "Timeout"]
  /\ UNCHANGED <<watch, comm, taproot, env, amountSat, cfgU, cfgL, height, htlc, rln, submarineData,
                 posts, hodlStore, lp, calls>>

\* the statuses that end the polling loop of runUserSettleHodlInvoice
EndsSettlePoll(status) == status \in {"Claimable", "Succeeded", "Cancelled", "Failed"}

\* a result that takes Succeeded for one more status to settle on
SettleAlsoWhenSucceeded(status) ==
  IF status \in {"Cancelled", "Failed", "Timeout"}
  THEN [settled |-> FALSE, status |-> status]
  ELSE IF status \notin {"Claimable", "Succeeded"}
  THEN [settled |-> FALSE, status |-> status]
  ELSE NoSettle

\* what runUserSettleHodlInvoice does with the status the loop ended with:
\* a result to return, or NoSettle when it goes on to invoiceSettle
SettleResultOf(status) ==
  IF status \in {"Cancelled", "Failed", "Timeout"}
  THEN [settled |-> FALSE, status |-> status]
  ELSE IF status = "Succeeded" THEN [settled |-> TRUE, status |-> status]
  ELSE IF status # "Claimable" THEN [settled |-> FALSE, status |-> status]
  ELSE NoSettle

\* a turn that takes the status of an outbound payment too
UserPollPaymentAnyDirection(r) ==
  /\ user.pc = "pollPayment"
  /\ LET status == IF r = PaymentThrow THEN user.status ELSE r.status
         break == r # PaymentThrow /\ EndsSettlePoll(status)
         last == user.attempt + 1 >= MaxAttempts
         res == SettleResultOf(status) IN
     /\ user' =
          IF ~break /\ ~last
          THEN [user EXCEPT !.attempt = @ + 1, !.status = status]
          ELSE IF res = NoSettle
          THEN [user EXCEPT !.pc = "settle", !.status = status]
          ELSE [user EXCEPT !.pc = "pollStatus", !.status = status,
                            !.settle = res, !.attempt = 0,
                            !.invoiceStatus = "Timeout"]
     /\ calls' = IF ~break /\ last
                 THEN [calls EXCEPT !.exhausted = @ \cup {"getPayment"},
                                    !.polled = @ \cup {"getPayment"}]
                 ELSE [calls EXCEPT !.polled = @ \cup {"getPayment"}]
  /\ UNCHANGED <<watch, comm, taproot, env, amountSat, cfgU, cfgL, height, htlc, rln,
                 submarineData, posts, hodlStore, lp>>

\* one turn of the polling loop for the answer r of rln.getPayment; when the
\* loop ends, the code after it
UserPollPaymentWith(r) ==
  /\ user.pc = "pollPayment"
  /\ LET status == IF r = PaymentThrow THEN user.status
                   ELSE IF ~r.inbound THEN user.status
                   ELSE r.status
         break == r # PaymentThrow /\ r.inbound /\ EndsSettlePoll(status)
         last == user.attempt + 1 >= MaxAttempts
         res == SettleResultOf(status) IN
     /\ user' =
          IF ~break /\ ~last
          THEN [user EXCEPT !.attempt = @ + 1, !.status = status]
          ELSE IF res = NoSettle
          THEN [user EXCEPT !.pc = "settle", !.status = status]
          ELSE [user EXCEPT !.pc = "pollStatus", !.status = status,
                            !.settle = res, !.attempt = 0,
                            !.invoiceStatus = "Timeout"]
     /\ calls' = IF ~break /\ last
                 THEN [calls EXCEPT !.exhausted = @ \cup {"getPayment"},
                                    !.polled = @ \cup {"getPayment"}]
                 ELSE [calls EXCEPT !.polled = @ \cup {"getPayment"}]
  /\ UNCHANGED <<watch, comm, taproot, env, amountSat, cfgU, cfgL, height, htlc, rln,
                 submarineData, posts, hodlStore, lp>>

\* one turn of the polling loop, for whatever rln.getPayment answers
UserPollPayment == \E r \in GetPaymentResponses : UserPollPaymentWith(r)

\* await rln.invoiceSettle({payment_hash, payment_preimage: record.preimage})
UserSettle ==
  /\ user.pc = "settle"
  /\ \E o \in Outcomes :
       /\ calls' = [calls EXCEPT !.settle = @ \cup {user.H},
                       !.invoiceSettle = Append(@,
                          [payment_hash |-> user.H,
                           payment_preimage |-> hodlStore.preimage])]
       /\ IF o = "throw"
          THEN /\ UserFails("RlnError")
               /\ UNCHANGED rln
          ELSE /\ rln' = RlnSettle(rln, user.H, hodlStore.preimage)
               /\ user' = [user EXCEPT !.pc = "pollStatus", !.attempt = 0,
                             !.settle = [settled |-> TRUE, status |-> "Succeeded"],
                             !.invoiceStatus = "Timeout"]
  /\ UNCHANGED <<watch, comm, taproot, env, amountSat, cfgU, cfgL, height, htlc, submarineData, posts,
                 hodlStore, lp>>

\* the statuses on which runUserWaitInvoiceStatus returns
EndsStatusPoll(status) == status \in {"Succeeded", "Cancelled", "Failed", "Expired"}

\* one turn of the loop of runUserWaitInvoiceStatus; runUserFlow ends after it
UserPollStatus ==
  /\ user.pc = "pollStatus"
  /\ \E r \in InvoiceStatusResponses :
       IF r = "throw"
       THEN /\ UserFails("RlnError")
            /\ calls' = [calls EXCEPT !.polled = @ \cup {"invoiceStatus"}]
       ELSE IF EndsStatusPoll(r)
       THEN /\ user' = [user EXCEPT !.pc = "done", !.invoiceStatus = r]
            /\ calls' = [calls EXCEPT !.polled = @ \cup {"invoiceStatus"}]
       ELSE IF user.attempt + 1 >= MaxAttempts
       THEN /\ user' = [user EXCEPT !.pc = "done", !.invoiceStatus = r]
            /\ calls' = [calls EXCEPT !.exhausted = @ \cup {"invoiceStatus"},
                                      !.polled = @ \cup {"invoiceStatus"}]
       ELSE /\ user' = [user EXCEPT !.attempt = @ + 1, !.invoiceStatus = r]
            /\ calls' = [calls EXCEPT !.polled = @ \cup {"invoiceStatus"}]
  /\ UNCHANGED <<watch, comm, taproot, env, amountSat, cfgU, cfgL, height, htlc, rln, submarineData,
                 posts, hodlStore, lp>>

(***************************************************************************)
(* LP: waitForSubmarineData (comm-client.ts), rln.decode.                  *)
(***************************************************************************)
\* a fetch that takes the record off the server
LpFetchTakesRecord ==
  /\ lp.pc = "fetch"
  /\ \E o \in Outcomes :
       IF o = "throw" \/ submarineData = NoData
       THEN /\ IF lp.attempt + 1 < MaxAttempts
               THEN lp' = [lp EXCEPT !.attempt = @ + 1]
               ELSE LpFails("NetworkTimeout")
            /\ UNCHANGED <<submarineData, calls>>
       ELSE /\ lp' = [lp EXCEPT !.pc = "decode", !.data = submarineData, !.attempt = 0]
            /\ submarineData' = NoData
            /\ calls' = calls
  /\ UNCHANGED <<watch, comm, taproot, env, amountSat, cfgU, cfgL, height, htlc, rln,
                 posts, hodlStore, user>>

\* a poll of GET /submarine that is repeated until the record is there
LpFetchForever ==
  /\ lp.pc = "fetch"
  /\ \E o \in Outcomes :
       IF o = "throw" \/ submarineData = NoData
       THEN /\ lp' = lp
            /\ calls' = calls
       ELSE /\ lp' = [lp EXCEPT !.pc = "decode", !.data = submarineData, !.attempt = 0]
            /\ calls' = calls
  /\ UNCHANGED <<watch, comm, taproot, env, amountSat, cfgU, cfgL, height, htlc, rln, submarineData,
                 posts, hodlStore, user>>

\* GET /submarine, polled by waitForSubmarineData; the last failure is rethrown
LpFetch ==
  /\ lp.pc = "fetch"
  /\ \E o \in Outcomes :
       IF o = "throw" \/ submarineData = NoData
       THEN IF lp.attempt + 1 < MaxAttempts
            THEN /\ lp' = [lp EXCEPT !.attempt = @ + 1]
                 /\ calls' = calls
            ELSE /\ LpFails("NetworkTimeout")
                 /\ calls' = [calls EXCEPT !.exhausted = @ \cup {"fetchSubmarineData"}]
       ELSE /\ lp' = [lp EXCEPT !.pc = "decode", !.data = submarineData, !.attempt = 0]
            /\ calls' = calls
  /\ UNCHANGED <<watch, comm, taproot, env, amountSat, cfgU, cfgL, height, htlc, rln, submarineData,
                 posts, hodlStore, user>>

\* POST /decodelninvoice
decode(invoice) == [payment_hash |-> invoice.h, amt_msat |-> invoice.msat]

\* a template whose timelock is computed again from the LP's view of the tip
LpTemplateFromTip(decoded, data) ==
  [payment_hash |-> decoded.payment_hash, lp_pubkey |-> cfgL.LP_PUBKEY_HEX,
   user_pubkey |-> data.userRefundPubkeyHex,
   cltv_expiry |-> height + cfgL.LOCKTIME_BLOCKS]

\* the template of runLpOperatorFlow: tLock is the one of the submarine data
LpTemplate(decoded, data) ==
  [payment_hash |-> decoded.payment_hash, lp_pubkey |-> cfgL.LP_PUBKEY_HEX,
   user_pubkey |-> data.userRefundPubkeyHex, cltv_expiry |-> data.tLock]

\* runLpOperatorFlow up to the call of verifyFundingTransaction
LpDecode ==
  /\ lp.pc = "decode"
  /\ \E o \in Outcomes :
       IF o = "throw" \/ lp.data.invoice = NoInvoice THEN LpFails("RlnError")
       ELSE IF cfgL.LP_PUBKEY_HEX = None THEN LpFails("LpPubkeyMissing")
       ELSE LET decoded == decode(lp.data.invoice) IN
            lp' = [lp EXCEPT !.pc = "verify", !.decoded = decoded,
                                  !.template = LpTemplate(decoded, lp.data)]
  /\ UNCHANGED <<watch, comm, taproot, env, amountSat, cfgU, cfgL, height, htlc, rln, submarineData,
                 posts, hodlStore, user, calls>>

(***************************************************************************)
(* LP: verifyFundingTransaction (verify_p2tr.ts).                          *)
(***************************************************************************)
\* a conversion that rounds down
msatToSatFloor(msat) == msat \div MSAT_PER_SAT

msatToSat(msat) == CeilDiv(msat, MSAT_PER_SAT)

\* rpc.getRawTransaction(txid, true): is the transaction known to the node
TxKnown(txid) == txid = FundingTxid /\ htlc.state # "none"

NoOutput == [value |-> 0, scriptPubKey |-> NoAddress]

\* rpc.getTransactionOutput(txid, vout, {expectedScriptPubKeyHex, requireUnspent})
getTransactionOutput(txid, vout, requireUnspent) ==
  IF /\ TxKnown(txid)
     /\ vout = 0
     /\ ~(requireUnspent /\ htlc.state = "claimed")
  THEN [value |-> htlc.value, scriptPubKey |-> htlc.spk]
  ELSE NoOutput

\* 34 bytes, the first one 0x51
IsP2TR(spk) == Len(spk) = 3 /\ spk[1] = <<"OP_1">>

VerifyError(err) == [NoFundingInfo EXCEPT !.error = err]

\* a check against minConfs alone
ConfirmationsBelowMin(confirmations, minConfs) == confirmations < minConfs

\* a check that takes only a transaction exactly minConfs deep
ConfirmationsNotExact(confirmations, minConfs) == confirmations # minConfs

\* !txDetails.confirmations || txDetails.confirmations < minConfs: a
\* transaction in the mempool has no confirmations field
ConfirmationsTooFew(confirmations, minConfs) ==
  confirmations = 0 \/ confirmations < minConfs

\* a verifier that compares the script only, not the amount
verifyScriptOnly(fundingInfo, template, invoiceAmountMsat, minConfs) ==
  LET output == getTransactionOutput(fundingInfo.txid, fundingInfo.vout, TRUE)
      expectedScriptPubKey == reconstructP2TRScriptPubKey(template) IN
  IF ~TxKnown(fundingInfo.txid) THEN VerifyError("RpcError")
  ELSE IF Confirmations(height, htlc) < minConfs
       THEN VerifyError("InsufficientConfirmations")
  ELSE IF expectedScriptPubKey # output.scriptPubKey THEN VerifyError("ScriptPubKeyMismatch")
  ELSE [error |-> None, txid |-> fundingInfo.txid, vout |-> fundingInfo.vout,
        amount_sat |-> output.value, confirmations |-> Confirmations(height, htlc),
        script_pubkey_hex |-> output.scriptPubKey,
        expected_script_pubkey_hex |-> expectedScriptPubKey]

\* the checks in the order of the code; .error = None when all pass
verifyFundingTransaction(fundingInfo, template, invoiceAmountMsat, minConfs) ==
  LET confirmations == Confirmations(height, htlc)
      expectedClaimScript == buildClaimTapscript(template.payment_hash, template.lp_pubkey)
      expectedRefundScript == buildRefundTapscript(template.cltv_expiry, template.user_pubkey)
      expectedScriptPubKey == reconstructP2TRScriptPubKey(template)
      output == getTransactionOutput(fundingInfo.txid, fundingInfo.vout, TRUE)
      amountSat_ == output.value
      invoiceAmountSat == msatToSat(invoiceAmountMsat) IN
  IF ~IsValidCompressedPubkey(template.lp_pubkey) THEN VerifyError("InvalidPubkey")
  ELSE IF ~IsValidCompressedPubkey(template.user_pubkey) THEN VerifyError("InvalidPubkey")
  ELSE IF ~TxKnown(fundingInfo.txid) THEN VerifyError("RpcError")
  ELSE IF ConfirmationsTooFew(confirmations, minConfs)
       THEN VerifyError("InsufficientConfirmations")
  ELSE IF ~IsValidPaymentHash(template.payment_hash) THEN VerifyError("TemplateMismatch")
  ELSE IF \/ ~Includes(expectedClaimScript, template.payment_hash)
          \/ ~Includes(expectedClaimScript, getXOnlyHex(template.lp_pubkey))
          \/ ~Includes(expectedRefundScript, getXOnlyHex(template.user_pubkey))
       THEN VerifyError("TemplateMismatch")
  ELSE IF output = NoOutput THEN VerifyError("RpcError")
  ELSE IF amountSat_ < invoiceAmountSat THEN VerifyError("AmountTooLow")
  ELSE IF ~IsP2TR(output.scriptPubKey) THEN VerifyError("ScriptPubKeyMismatch")
  ELSE IF expectedScriptPubKey # output.scriptPubKey THEN VerifyError("ScriptPubKeyMismatch")
  ELSE [error |-> None, txid |-> fundingInfo.txid, vout |-> fundingInfo.vout,
        amount_sat |-> amountSat_, confirmations |-> confirmations,
        script_pubkey_hex |-> output.scriptPubKey,
        expected_script_pubkey_hex |-> expectedScriptPubKey]

\* await verifyFunding(...); when it returns, rln.pay is called
LpVerify ==
  /\ lp.pc = "verify"
  /\ \E o \in Outcomes :
       LET res == IF o = "throw" THEN VerifyError("RpcError")
                  ELSE verifyFundingTransaction(
                         [txid |-> lp.data.fundingTxid, vout |-> lp.data.fundingVout],
                         lp.template, lp.decoded.amt_msat, cfgL.MIN_CONFS) IN
       /\ calls' = [calls EXCEPT !.verify = @ + 1]
       /\ IF res.error # None
          THEN LpFails(res.error)
          ELSE lp' = [lp EXCEPT !.pc = "pay", !.fundingInfo = res]
  /\ UNCHANGED <<watch, comm, taproot, env, amountSat, cfgU, cfgL, height, htlc, rln, submarineData,
                 posts, hodlStore, user>>

(***************************************************************************)
(* LP: rln.pay and the settlement poll (orchestrator.ts).                  *)
(***************************************************************************)
\* POST /sendpayment: the status returned, or "throw"
PayResponses ==
  IF env = "happy" THEN {"Pending"} ELSE {"Pending", "Succeeded", "Failed", "throw"}

\* the node on POST /sendpayment: the payment is held at the payee when the
\* invoice is the one the payee issued
RlnPay(r, invoice, status) ==
  IF /\ status \in {"Pending", "Succeeded"}
     /\ r.payment = "none"
     /\ r.invoice # NoInvoice
     /\ invoice = r.invoice
  THEN [r EXCEPT !.payment = "held"]
  ELSE r

\* a payment step that goes on to the settlement poll whatever the status
LpPayIgnoresFailed ==
  /\ lp.pc = "pay"
  /\ \E o \in PayResponses :
       /\ calls' = [calls EXCEPT !.pay = @ + 1,
                                 !.payResult = IF o \in {"throw", "Failed"} THEN o
                                               ELSE "NotFailed"]
       /\ IF o = "throw"
          THEN /\ LpFails("RlnError")
               /\ UNCHANGED rln
          ELSE /\ rln' = RlnPay(rln, lp.data.invoice, o)
               /\ lp' = [lp EXCEPT !.pc = "pollPreimage", !.attempt = 0,
                                   !.finalStatus = "Timeout"]
  /\ UNCHANGED <<watch, comm, taproot, env, amountSat, cfgU, cfgL, height, htlc, submarineData,
                 posts, hodlStore, user>>

\* await rln.pay(invoice)
LpPay ==
  /\ lp.pc = "pay"
  /\ \E o \in PayResponses :
       /\ calls' = [calls EXCEPT !.pay = @ + 1,
                                 !.payResult = IF o \in {"throw", "Failed"} THEN o
                                               ELSE "NotFailed"]
       /\ IF o = "throw"
          THEN /\ LpFails("RlnError")
               /\ UNCHANGED rln
          ELSE /\ rln' = RlnPay(rln, lp.data.invoice, o)
               /\ lp' = IF o = "Failed"
                        THEN [lp EXCEPT !.pc = "done",
                                !.result = [status |-> "Failed", claim_txid |-> None]]
                        ELSE [lp EXCEPT !.pc = "pollPreimage", !.attempt = 0,
                                !.finalStatus = "Timeout"]
  /\ UNCHANGED <<watch, comm, taproot, env, amountSat, cfgU, cfgL, height, htlc, submarineData, posts,
                 hodlStore, user>>

\* the preimages a faulty node can report: anything but the secret, which it
\* has only once the payment is settled
ReportablePreimages ==
  {None, MalformedPreimage}
    \cup {q \in Preimages : sha256hex(q) # rln.invoice.h}
    \cup (IF rln.payment = "settled" THEN {rln.preimage} ELSE {})

PreimageThrow == [status |-> "throw", preimage |-> None]

\* GET /getpaymentpreimage on the LP's node
GetPaymentPreimageResponses ==
  IF env = "happy"
  THEN CASE rln.payment = "settled" -> {[status |-> "Succeeded", preimage |-> rln.preimage]}
         [] rln.payment = "held" -> {[status |-> "Pending", preimage |-> None]}
         [] rln.payment = "failed" -> {[status |-> "Failed", preimage |-> None]}
         [] OTHER -> {PreimageThrow}
  ELSE {PreimageThrow}
         \cup [status : {"Pending", "Cancelled", "Failed"}, preimage : {None}]
         \cup [status : {"Succeeded"}, preimage : ReportablePreimages]

(***************************************************************************)
(* LP: claimP2trHtlc (htlc_p2tr_finalize.ts).                              *)
(***************************************************************************)
\* a fee estimate with a floor of twice the minimum
estimateWithDoubleFloor(feeRateSatPerVb) ==
  Max(2 * MIN_CLAIM_FEE_SAT,
      CeilDiv((TX_OVERHEAD_HALF_VBYTES
                 + 2 * (ESTIMATED_INPUT_VBYTES + P2TR_OUTPUT_VBYTES)) * feeRateSatPerVb, 2))

\* a fee estimate that rounds down
estimateRoundedDown(feeRateSatPerVb) ==
  Max(MIN_CLAIM_FEE_SAT,
      ((TX_OVERHEAD_HALF_VBYTES
          + 2 * (ESTIMATED_INPUT_VBYTES + P2TR_OUTPUT_VBYTES)) * feeRateSatPerVb) \div 2)

\* vbytes are counted in halves: ceil((10.5 + 120 + 43) * rate)
estimateClaimFeeSat(feeRateSatPerVb) ==
  LET halfVbytes == TX_OVERHEAD_HALF_VBYTES
                      + 2 * (ESTIMATED_INPUT_VBYTES + P2TR_OUTPUT_VBYTES) IN
  Max(MIN_CLAIM_FEE_SAT, CeilDiv(halfVbytes * feeRateSatPerVb, 2))

\* a serialisation that writes the items last to first
witnessStackReversed(witnessStack) ==
  LET n == Len(witnessStack) IN
  <<n>> \o [k \in 1..(2 * n) |->
              IF k % 2 = 1 THEN Len(witnessStack[n + 1 - (k + 1) \div 2])
              ELSE witnessStack[n + 1 - k \div 2]]

\* the number of items, then each item after its length
witnessStackToScriptWitness(witnessStack) ==
  LET n == Len(witnessStack) IN
  <<n>> \o [k \in 1..(2 * n) |->
              IF k % 2 = 1 THEN Len(witnessStack[(k + 1) \div 2])
              ELSE witnessStack[k \div 2]]

\* checks of the formats only
ClaimFormatCheck(paymentHashHex, preimageHex, lpWif) ==
  IF ~IsValidPaymentHash(paymentHashHex) THEN "InvalidInput"
  ELSE IF ~IsValidPreimage(preimageHex) THEN "InvalidInput"
  ELSE IF lpWif = None THEN "InvalidInput"
  ELSE None

\* the checks of claimP2trHtlc before it builds anything: the error, or None
ClaimPrecheck(paymentHashHex, preimageHex, lpWif) ==
  IF ~IsValidPaymentHash(paymentHashHex) THEN "InvalidInput"
  ELSE IF ~IsValidPreimage(preimageHex) THEN "InvalidInput"
  ELSE IF sha256hex(preimageHex) # paymentHashHex THEN "PreimageMismatch"
  ELSE IF lpWif = None THEN "InvalidInput"
  ELSE None

\* the key pair a WIF decodes to, by its public key
deriveTaprootFromWIF(wif) == wif

\* a claim builder that checks the fee only
claimWithoutPrecheck(utxo, paymentHashHex, preimageHex, lpWif, userRefundPubkeyHex, tLock) ==
  LET lpPubkeyHex == deriveTaprootFromWIF(lpWif)
      feeSat == estimateClaimFeeSat(cfgL.FEE_RATE_SAT_PER_VB) IN
  IF utxo.value - feeSat < DUST_LIMIT_SAT THEN [error |-> "DustAfterFee", tx |-> NoClaim]
  ELSE [error |-> None,
        tx |-> [txid |-> "txC", input |-> utxo.txid,
                script |-> reconstructP2TRScriptPubKey(
                             [payment_hash |-> paymentHashHex, lp_pubkey |-> lpPubkeyHex,
                              user_pubkey |-> userRefundPubkeyHex, cltv_expiry |-> tLock]),
                witness |-> <<"sig:" \o getXOnlyHex(lpPubkeyHex), preimageHex,
                              buildClaimTapscript(paymentHashHex, lpPubkeyHex),
                              "controlBlock">>,
                finalScriptWitness |->
                  witnessStackToScriptWitness(
                    <<"sig:" \o getXOnlyHex(lpPubkeyHex), preimageHex,
                      buildClaimTapscript(paymentHashHex, lpPubkeyHex),
                      "controlBlock">>),
                value |-> utxo.value - feeSat, fee_sat |-> feeSat]]

\* what claimP2trHtlc builds: the error, or the transaction it goes on to send
claimP2trHtlc(utxo, paymentHashHex, preimageHex, lpWif, userRefundPubkeyHex, tLock) ==
  LET err == ClaimPrecheck(paymentHashHex, preimageHex, lpWif)
      lpPubkeyHex == deriveTaprootFromWIF(lpWif)
      claimScript == buildClaimTapscript(paymentHashHex, lpPubkeyHex)
      expectedScriptPubkey ==
        reconstructP2TRScriptPubKey(
          [payment_hash |-> paymentHashHex, lp_pubkey |-> lpPubkeyHex,
           user_pubkey |-> userRefundPubkeyHex, cltv_expiry |-> tLock])
      feeSat == estimateClaimFeeSat(cfgL.FEE_RATE_SAT_PER_VB)
      outputValue == utxo.value - feeSat
      witnessStack == <<"sig:" \o getXOnlyHex(lpPubkeyHex), preimageHex,
                        claimScript, "controlBlock">> IN
  IF err # None THEN [error |-> err, tx |-> NoClaim]
  ELSE IF outputValue < DUST_LIMIT_SAT THEN [error |-> "DustAfterFee", tx |-> NoClaim]
  ELSE [error |-> None,
        tx |-> [txid |-> "txC", input |-> utxo.txid, script |-> expectedScriptPubkey,
                witness |-> witnessStack,
                finalScriptWitness |-> witnessStackToScriptWitness(witnessStack),
                value |-> outputValue, fee_sat |-> feeSat]]

\* refundP2trHtlc: a placeholder, whatever the arguments
refundP2trHtlc(utxo, paymentHashHex, userRefundPubkeyHex, tLock) ==
  [psbt_base64 |-> "",
   instructions |-> "TODO: build P2TR refund PSBT (script-path) for user signing after timelock expiry."]

\* a settlement poll that goes on to the claim builder without looking at the
\* preimage once the status is Succeeded
LpPollPreimageClaimsUnchecked ==
  /\ lp.pc = "pollPreimage"
  /\ \E r \in GetPaymentPreimageResponses :
       LET preimage == IF r.status = "Succeeded" THEN r.preimage ELSE lp.preimage
           break == \/ r.status = "Succeeded" /\ preimage # None
                    \/ r.status \in {"Cancelled", "Failed"}
           last == lp.attempt + 1 >= MaxAttempts
           claim == claimP2trHtlc(
                      [txid |-> lp.data.fundingTxid, vout |-> lp.data.fundingVout,
                       value |-> lp.fundingInfo.amount_sat],
                      lp.decoded.payment_hash, preimage, cfgL.WIF,
                      lp.data.userRefundPubkeyHex, lp.data.tLock) IN
       /\ lp' =
            IF r = PreimageThrow THEN [lp EXCEPT !.pc = "failed", !.error = "RlnError"]
            ELSE IF ~break /\ ~last
            THEN [lp EXCEPT !.attempt = @ + 1, !.finalStatus = r.status,
                            !.preimage = preimage]
            ELSE IF r.status # "Succeeded"
            THEN [lp EXCEPT !.pc = "done", !.finalStatus = r.status,
                            !.result = [status |-> r.status, claim_txid |-> None]]
            ELSE IF claim.error # None
            THEN [lp EXCEPT !.pc = "failed", !.error = claim.error,
                            !.finalStatus = r.status, !.preimage = preimage]
            ELSE [lp EXCEPT !.pc = "broadcast", !.finalStatus = r.status,
                            !.preimage = preimage, !.claim = claim.tx]
       /\ calls' = [calls EXCEPT
                      !.polled = @ \cup {"getPaymentPreimage"},
                      !.exhausted = IF r # PreimageThrow /\ ~break /\ last
                                    THEN @ \cup {"getPaymentPreimage"} ELSE @,
                      !.claim = IF r.status = "Succeeded" /\ (break \/ last)
                                THEN Append(@, [txid |-> lp.data.fundingTxid,
                                                vout |-> lp.data.fundingVout,
                                                value |-> lp.fundingInfo.amount_sat,
                                                preimage |-> preimage])
                                ELSE @]
  /\ UNCHANGED <<watch, comm, taproot, env, amountSat, cfgU, cfgL, height, htlc, rln, submarineData,
                 posts, hodlStore, user>>

\* one turn of the settlement poll; when the loop ends, the code after it up to
\* the call of rpc.sendRawTransaction inside claimP2trHtlc
LpPollPreimage ==
  /\ lp.pc = "pollPreimage"
  /\ \E r \in GetPaymentPreimageResponses :
       LET preimage == IF r.status = "Succeeded" THEN r.preimage ELSE lp.preimage
           break == \/ r.status = "Succeeded" /\ preimage # None
                    \/ r.status \in {"Cancelled", "Failed"}
           last == lp.attempt + 1 >= MaxAttempts
           claim == claimP2trHtlc(
                      [txid |-> lp.data.fundingTxid, vout |-> lp.data.fundingVout,
                       value |-> lp.fundingInfo.amount_sat],
                      lp.decoded.payment_hash, preimage, cfgL.WIF,
                      lp.data.userRefundPubkeyHex, lp.data.tLock) IN
       /\ lp' =
            IF r = PreimageThrow THEN [lp EXCEPT !.pc = "failed", !.error = "RlnError"]
            ELSE IF ~break /\ ~last
            THEN [lp EXCEPT !.attempt = @ + 1, !.finalStatus = r.status,
                            !.preimage = preimage]
            ELSE IF r.status # "Succeeded"
            THEN [lp EXCEPT !.pc = "done", !.finalStatus = r.status,
                            !.result = [status |-> r.status, claim_txid |-> None]]
            ELSE IF preimage = None
            THEN [lp EXCEPT !.pc = "failed", !.error = "InternalError",
                            !.finalStatus = r.status]
            ELSE IF claim.error # None
            THEN [lp EXCEPT !.pc = "failed", !.error = claim.error,
                            !.finalStatus = r.status, !.preimage = preimage]
            ELSE [lp EXCEPT !.pc = "broadcast", !.finalStatus = r.status,
                            !.preimage = preimage, !.claim = claim.tx]
       /\ calls' = [calls EXCEPT
                      !.polled = @ \cup {"getPaymentPreimage"},
                      !.exhausted = IF r # PreimageThrow /\ ~break /\ last
                                    THEN @ \cup {"getPaymentPreimage"} ELSE @,
                      !.claim = IF r.status = "Succeeded" /\ preimage # None
                                THEN Append(@, [txid |-> lp.data.fundingTxid,
                                                vout |-> lp.data.fundingVout,
                                                value |-> lp.fundingInfo.amount_sat,
                                                preimage |-> preimage])
                                ELSE @]
  /\ UNCHANGED <<watch, comm, taproot, env, amountSat, cfgU, cfgL, height, htlc, rln, submarineData,
                 posts, hodlStore, user>>

\* the node on sendrawtransaction: the input is the unspent HTLC output, the
\* script and control block commit to its key, the witness satisfies the claim
\* leaf, and the fee is not negative
ChainAccepts(tx) ==
  /\ htlc.state \in {"mempool", "mined"}
  /\ tx.input = FundingTxid
  /\ tx.script = htlc.spk
  /\ Len(tx.witness) = 4
  /\ tx.witness[3] = htlc.spk[2]
  /\ sha256hex(tx.witness[2]) = tx.witness[3][2]
  /\ tx.witness[1] = "sig:" \o tx.witness[3][4]
  /\ tx.value <= htlc.value

\* await rpc.sendRawTransaction(hex); the rest of runLpOperatorFlow
LpBroadcast ==
  /\ lp.pc = "broadcast"
  /\ \E o \in Outcomes :
       /\ calls' = [calls EXCEPT !.broadcast = @ \cup
                      {[payment_hash |-> lp.decoded.payment_hash,
                        preimage |-> lp.claim.witness[2]]}]
       /\ IF o = "throw" \/ ~ChainAccepts(lp.claim)
          THEN /\ LpFails("RpcError")
               /\ UNCHANGED htlc
          ELSE /\ htlc' = [htlc EXCEPT !.state = "claimed"]
               /\ lp' = [lp EXCEPT !.pc = "done",
                           !.result = [status |-> "Succeeded",
                                       claim_txid |-> lp.claim.txid]]
  /\ UNCHANGED <<watch, comm, taproot, env, amountSat, cfgU, cfgL, height, rln, submarineData, posts,
                 hodlStore, user>>

(***************************************************************************)
(* The environment of a faulty run.                                        *)
(***************************************************************************)
\* the record the USER would publish now
UserRecord ==
  [invoice |-> user.invoice, fundingTxid |-> FundingTxid, fundingVout |-> 0,
   userRefundPubkeyHex |-> UserPubkey, tLock |-> user.tLock]

\* bodies a client may POST: the USER's record, or it with one field changed
PostBodies ==
  { UserRecord,
    [UserRecord EXCEPT !.tLock = @ + 1],
    [UserRecord EXCEPT !.invoice = Invoice(user.H, (amountSat + 1) * MSAT_PER_SAT)] }

\* the server's handler of POST /submarine: submarineData = JSON.parse(body).
\* The server lives in the USER's process and ends with it: a failed flow
\* exits, a flow that returned leaves the server listening.
PostSubmarine ==
  /\ env = "faulty"
  /\ posts < MaxPosts
  /\ user.pc # "failed"
  /\ \E body \in PostBodies :
       submarineData' = body
  /\ posts' = posts + 1
  /\ UNCHANGED <<watch, comm, taproot, env, amountSat, cfgU, cfgL, height, htlc, rln, hodlStore,
                 user, lp, calls>>

\* the held payment fails: the HODL invoice expired, or a hop gave up
RlnExpire ==
  /\ env = "faulty"
  /\ rln.payment = "held"
  /\ rln' = [rln EXCEPT !.payment = "failed"]
  /\ UNCHANGED <<watch, comm, taproot, env, amountSat, cfgU, cfgL, height, htlc, submarineData, posts,
                 hodlStore, user, lp, calls>>

Next ==
  \/ UserCreateInvoice
  \/ UserPersist
  \/ UserBuildHtlc
  \/ UserSendDeposit
  \/ UserWaitFunding
  \/ UserLoadRecord
  \/ UserPollPayment
  \/ UserSettle
  \/ UserPollStatus
  \/ LpFetch
  \/ LpDecode
  \/ LpVerify
  \/ LpPay
  \/ LpPollPreimage
  \/ LpBroadcast
  \/ PostSubmarine
  \/ RlnExpire
  \/ Mine

Spec == Init /\ [][Next]_vars

(***************************************************************************)
(* The happy runs: every call succeeds, the RLN answers what is the case,  *)
(* nobody else talks to the comm server.  Each process keeps running and   *)
(* the chain keeps growing.                                                *)
(***************************************************************************)
HappyInit == Init /\ env = "happy"

UserStep ==
  \/ UserCreateInvoice
  \/ UserPersist
  \/ UserBuildHtlc
  \/ UserSendDeposit
  \/ UserWaitFunding
  \/ UserLoadRecord
  \/ UserPollPayment
  \/ UserSettle
  \/ UserPollStatus

LpStep ==
  \/ LpFetch
  \/ LpDecode
  \/ LpVerify
  \/ LpPay
  \/ LpPollPreimage
  \/ LpBroadcast

NextHappy == UserStep \/ LpStep \/ Mine

FairSpec ==
  /\ HappyInit
  /\ [][NextHappy]_vars
  /\ WF_vars(UserStep)
  /\ WF_vars(LpStep)
  /\ WF_vars(Mine)

(***************************************************************************)
(* The same run with any LP configuration the schema of config.ts accepts: *)
(* WIF and LP_PUBKEY_HEX are two settings, and nothing compares them.      *)
(***************************************************************************)
\* the public key of another key pair
OtherLpPubkey == "lpPk2"

LpConfigsAnyWif ==
  {[c EXCEPT !.WIF = wif] : c \in LpConfigs, wif \in {LpPubkey, OtherLpPubkey}}

LpKeysInit ==
  /\ \E run \in Runs :
       /\ env = run[1]
       /\ amountSat = run[2]
  /\ env = "happy"
  /\ cfgU \in UserConfigs
  /\ cfgL \in LpConfigsAnyWif
  /\ height = StartHeight
  /\ htlc = NoHtlc
  /\ rln = [invoice |-> NoInvoice, payment |-> "none", preimage |-> None]
  /\ submarineData = NoData
  /\ posts = 0
  /\ hodlStore = NoRecord
  /\ user = InitUser
  /\ lp = InitLp
  /\ calls = InitCalls
  /\ taproot = NoTaproot
  /\ comm = NoWait
  /\ watch = NoWatch

LpKeysSpec == LpKeysInit /\ [][NextHappy]_vars

(***************************************************************************)
(* The same run for the amounts around the limits of runDeposit.           *)
(***************************************************************************)
PromptAmounts ==
  {-1, 0, 1, P2TR_DUST_SAT - 1, P2TR_DUST_SAT, P2TR_DUST_SAT + 1,
   MIN_CLAIM_FEE_SAT + DUST_LIMIT_SAT, MIN_CLAIM_FEE_SAT + DUST_LIMIT_SAT + 1}

AmountInit ==
  /\ env = "happy"
  /\ amountSat \in PromptAmounts
  /\ cfgU \in UserConfigs
  /\ cfgL \in LpConfigs
  /\ height = StartHeight
  /\ htlc = NoHtlc
  /\ rln = [invoice |-> NoInvoice, payment |-> "none", preimage |-> None]
  /\ submarineData = NoData
  /\ posts = 0
  /\ hodlStore = NoRecord
  /\ user = InitUser
  /\ lp = InitLp
  /\ calls = InitCalls
  /\ taproot = NoTaproot
  /\ comm = NoWait
  /\ watch = NoWatch

AmountSpec == AmountInit /\ [][NextHappy]_vars

(***************************************************************************)
(* Every run, on a chain that is ShortChainBlocks below the highest height *)
(* when the USER starts: the funding needs one block to be mined.          *)
(***************************************************************************)
ShortChainBlocks == 2

ShortChainInit ==
  /\ \E run \in Runs :
       /\ env = run[1]
       /\ amountSat = run[2]
  /\ cfgU \in UserConfigs
  /\ cfgL \in LpConfigs
  /\ height = MaxHeight - ShortChainBlocks
  /\ htlc = NoHtlc
  /\ rln = [invoice |-> NoInvoice, payment |-> "none", preimage |-> None]
  /\ submarineData = NoData
  /\ posts = 0
  /\ hodlStore = NoRecord
  /\ user = InitUser
  /\ lp = InitLp
  /\ calls = InitCalls
  /\ taproot = NoTaproot
  /\ comm = NoWait
  /\ watch = NoWatch

ShortChainSpec == ShortChainInit /\ [][Next]_vars

\* the same, with each awaited adapter call returning: a process that can take
\* a step takes it.  The chain, the other clients of the comm server and the
\* RLN's expiry do as they please.
TerminationSpec ==
  /\ ShortChainInit
  /\ [][Next]_vars
  /\ WF_vars(UserStep)
  /\ WF_vars(LpStep)

(***************************************************************************)
(* The verifier on its own: the LP stands before verifyFundingTransaction  *)
(* with a record it fetched, for every funding output, invoice amount,     *)
(* timelock of the record, depth of the funding transaction and MIN_CONFS  *)
(* drawn below; it verifies and, when the verification returns, pays.      *)
(***************************************************************************)
\* the values of the funding output, in sats
VerifierValues == {19999, 20000, 20001}

\* the amounts of the invoice in the record, in msat
VerifierMsats == {19999001, 20000000, 20000001}

\* the record the LP fetched: the USER's, or it with another timelock
VerifierData(H, msat, tLock) ==
  [invoice |-> Invoice(H, msat), fundingTxid |-> FundingTxid, fundingVout |-> 0,
   userRefundPubkeyHex |-> UserPubkey, tLock |-> tLock]

VerifierInit ==
  /\ env = "happy"
  /\ amountSat \in VerifierValues
  /\ cfgU \in {c \in UserConfigs : ~TimelockTooLow(c)}
  /\ \E minConfs \in 0..ConfsCap :
       cfgL \in {[c EXCEPT !.MIN_CONFS = minConfs] : c \in LpConfigs}
  /\ height = StartHeight + ConfsCap
  /\ submarineData \in
       { VerifierData(sha256hex(p), msat, StartHeight + cfgU.LOCKTIME_BLOCKS + d) :
           p \in RandomBytes, msat \in VerifierMsats, d \in {0, 1} }
  /\ posts = 1
  /\ \E p \in RandomBytes, depth \in 0..ConfsCap :
       LET H == sha256hex(p)
           tLock == StartHeight + cfgU.LOCKTIME_BLOCKS
           address == reconstructP2TRScriptPubKey(
                        [payment_hash |-> H, lp_pubkey |-> cfgU.LP_PUBKEY_HEX,
                         user_pubkey |-> UserPubkey, cltv_expiry |-> tLock])
           decoded == decode(submarineData.invoice) IN
       /\ htlc = IF depth = 0
                 THEN [state |-> "mempool", spk |-> address, value |-> amountSat,
                       minedAt |-> 0]
                 ELSE [state |-> "mined", spk |-> address, value |-> amountSat,
                       minedAt |-> height - depth + 1]
       /\ rln = [invoice |-> Invoice(H, amountSat * MSAT_PER_SAT), payment |-> "none",
                 preimage |-> None]
       /\ hodlStore = [payment_hash |-> H, preimage |-> p,
                       amount_msat |-> amountSat * MSAT_PER_SAT,
                       expiry_sec |-> cfgU.HODL_EXPIRY_SEC,
                       invoice |-> Invoice(H, amountSat * MSAT_PER_SAT)]
       /\ user = [InitUser EXCEPT !.pc = "waitFunding", !.preimage = p, !.H = H,
                    !.invoice = Invoice(H, amountSat * MSAT_PER_SAT),
                    !.tLock = tLock, !.address = address]
       /\ lp = [InitLp EXCEPT !.pc = "verify", !.data = submarineData,
                  !.decoded = decoded,
                  !.template = LpTemplate(decoded, submarineData)]
  /\ calls = [InitCalls EXCEPT !.invoiceHodl = 1, !.persist = 1,
                               !.getBlockCount = 1, !.sendDeposit = 1]
  /\ taproot = NoTaproot
  /\ comm = NoWait
  /\ watch = NoWatch

VerifierNext == LpVerify \/ LpPay

VerifierSpec == VerifierInit /\ [][VerifierNext]_vars

\* the same, on a chain that keeps growing
VerifierChainNext == LpVerify \/ LpPay \/ Mine

VerifierChainSpec == VerifierInit /\ [][VerifierChainNext]_vars

(***************************************************************************)
(* The claim on its own: the LP has verified the funding and paid, the     *)
(* USER has settled, and the LP polls for the preimage and claims, for     *)
(* every value of the funding output and fee rate drawn below.             *)
(***************************************************************************)
\* the fee rates, in sat/vB: the fee is 1000 (the minimum), 1041 and 1215
ClaimFeeRates == {1, 6, 7}

\* the values of the funding output, in sats: one below and at the fee plus
\* the dust limit, for each fee rate
ClaimValues == {1329, 1330, 1370, 1371, 1544, 1545}

ClaimInit ==
  /\ env \in {"happy", "faulty"}
  /\ amountSat \in ClaimValues
  /\ cfgU \in {c \in UserConfigs : ~TimelockTooLow(c)}
  /\ \E feeRate \in ClaimFeeRates :
       cfgL \in {[c EXCEPT !.FEE_RATE_SAT_PER_VB = feeRate] : c \in LpConfigs}
  /\ height = StartHeight + 1
  /\ posts = 0
  /\ taproot = NoTaproot
  /\ comm = NoWait
  /\ watch = NoWatch
  /\ \E p \in RandomBytes :
       LET H == sha256hex(p)
           tLock == StartHeight + cfgU.LOCKTIME_BLOCKS
           invoice == Invoice(H, amountSat * MSAT_PER_SAT)
           address == reconstructP2TRScriptPubKey(
                        [payment_hash |-> H, lp_pubkey |-> cfgU.LP_PUBKEY_HEX,
                         user_pubkey |-> UserPubkey, cltv_expiry |-> tLock])
           data == VerifierData(H, amountSat * MSAT_PER_SAT, tLock)
           decoded == decode(invoice)
           funding == [txid |-> FundingTxid, vout |-> 0, value |-> amountSat] IN
       /\ submarineData = data
       /\ htlc = [state |-> "mined", spk |-> address, value |-> amountSat,
                  minedAt |-> height]
       /\ rln = [invoice |-> invoice, payment |-> "settled", preimage |-> p]
       /\ hodlStore = [payment_hash |-> H, preimage |-> p,
                       amount_msat |-> amountSat * MSAT_PER_SAT,
                       expiry_sec |-> cfgU.HODL_EXPIRY_SEC, invoice |-> invoice]
       /\ user = [InitUser EXCEPT !.pc = "pollStatus", !.preimage = p, !.H = H,
                    !.invoice = invoice, !.tLock = tLock, !.address = address,
                    !.funding = funding, !.status = "Claimable",
                    !.settle = [settled |-> TRUE, status |-> "Succeeded"],
                    !.invoiceStatus = "Timeout"]
       /\ lp = [InitLp EXCEPT !.pc = "pollPreimage", !.data = data,
                  !.decoded = decoded, !.template = LpTemplate(decoded, data),
                  !.fundingInfo =
                     [error |-> None, txid |-> FundingTxid, vout |-> 0,
                      amount_sat |-> amountSat, confirmations |-> 1,
                      script_pubkey_hex |-> address,
                      expected_script_pubkey_hex |-> address],
                  !.finalStatus = "Timeout"]
       /\ calls = [InitCalls EXCEPT !.invoiceHodl = 1, !.persist = 1,
                     !.getBlockCount = 1, !.sendDeposit = 1, !.publish = {data},
                     !.settle = {H}, !.verify = 1, !.pay = 1,
                     !.payResult = "NotFailed",
                     !.polled = {"waitForFunding", "getPayment"},
                     !.invoiceSettle = <<[payment_hash |-> H,
                                          payment_preimage |-> p]>>]

ClaimNext == LpPollPreimage \/ LpBroadcast

ClaimSpec == ClaimInit /\ [][ClaimNext]_vars

(***************************************************************************)
(* The script tree on its own: the root and the scriptPubKey, computed     *)
(* from two leaf hashes in the order [claim, refund] and in the order      *)
(* [refund, claim], for every pair of leaf hashes.  The two roles rest.    *)
(***************************************************************************)
\* the two roles and their environment before anything has run
FlowAtRest ==
  /\ env = "happy"
  /\ amountSat = MIN_CLAIM_FEE_SAT + DUST_LIMIT_SAT
  /\ cfgU \in {c \in UserConfigs : ~TimelockTooLow(c)}
  /\ cfgL \in LpConfigs
  /\ height = StartHeight
  /\ htlc = NoHtlc
  /\ rln = [invoice |-> NoInvoice, payment |-> "none", preimage |-> None]
  /\ submarineData = NoData
  /\ posts = 0
  /\ hodlStore = NoRecord
  /\ user = InitUser
  /\ lp = InitLp
  /\ calls = InitCalls

FlowRests ==
  UNCHANGED <<env, amountSat, cfgU, cfgL, height, htlc, rln, submarineData,
              posts, hodlStore, user, lp, calls, comm, watch>>

LeafHashes == [1..HashBytes -> 0..MaxByte]

\* what deriveDeterministicInternalKey returns
InternalKey == "internalKey"

TreeInit ==
  /\ FlowAtRest
  /\ comm = NoWait
  /\ watch = NoWatch
  /\ \E claimLeafHash \in LeafHashes, refundLeafHash \in LeafHashes :
       taproot = [claimLeafHash |-> claimLeafHash, refundLeafHash |-> refundLeafHash,
                  treeRoot |-> NoRoot, scriptPubKey |-> NoAddress,
                  swappedRoot |-> NoRoot, swappedScriptPubKey |-> NoAddress]

\* treeRoot and scriptPubKey as reconstructP2TRScriptPubKey computes them
TreeRootClaimFirst ==
  /\ taproot.treeRoot = NoRoot
  /\ LET treeRoot == computeTaprootTreeRoot(
                       <<taproot.claimLeafHash, taproot.refundLeafHash>>).root IN
     taproot' = [taproot EXCEPT
                   !.treeRoot = treeRoot,
                   !.scriptPubKey =
                      compileP2TR(computeTaprootOutputKey(InternalKey, treeRoot))]
  /\ FlowRests

\* the same from the leaves in the other order
TreeRootRefundFirst ==
  /\ taproot.swappedRoot = NoRoot
  /\ LET treeRoot == computeTaprootTreeRoot(
                       <<taproot.refundLeafHash, taproot.claimLeafHash>>).root IN
     taproot' = [taproot EXCEPT
                   !.swappedRoot = treeRoot,
                   !.swappedScriptPubKey =
                      compileP2TR(computeTaprootOutputKey(InternalKey, treeRoot))]
  /\ FlowRests

TreeNext == TreeRootClaimFirst \/ TreeRootRefundFirst

TreeSpec == TreeInit /\ [][TreeNext]_vars

(***************************************************************************)
(* The two ways to the scriptPubKey: buildP2TRHTLC hands the two leaves to *)
(* bitcoin.payments.p2tr and returns the address, which the deposit pays   *)
(* to; reconstructP2TRScriptPubKey hashes by hand.  The library is taken   *)
(* to build the tree as BIP-341 has it: leaf hashes sorted, TapBranch of   *)
(* the lower then the higher, TapTweak of the internal key and the root.   *)
(***************************************************************************)
\* the Merkle root of a tree of two leaves as the library computes it
p2trMerkleRoot(leafHashA, leafHashB) ==
  LET min == IF BufferCompare(leafHashB, leafHashA) < 0 THEN leafHashB ELSE leafHashA
      max == IF BufferCompare(leafHashB, leafHashA) < 0 THEN leafHashA ELSE leafHashB IN
  taggedHash("TapBranch", min \o max)

\* bitcoin.payments.p2tr({ internalPubkey, scriptTree }).address: the
\* witness version and the tweaked output key
p2trAddress(internalPubkey, leafHashA, leafHashB) ==
  LET merkleRoot == p2trMerkleRoot(leafHashA, leafHashB)
      tweak == taggedHash("TapTweak", <<internalPubkey, merkleRoot>>) IN
  [version |-> 1, program |-> <<"xOnlyPointAddTweak", internalPubkey, tweak>>]

\* the scriptPubKey of an output that pays to a witness address
addressToOutputScript(address) ==
  <<(IF address.version = 0 THEN "OP_0" ELSE "OP_1"), address.program>>

BuildInit ==
  /\ FlowAtRest
  /\ comm = NoWait
  /\ watch = NoWatch
  /\ \E claimLeafHash \in LeafHashes, refundLeafHash \in LeafHashes :
       taproot = [claimLeafHash |-> claimLeafHash, refundLeafHash |-> refundLeafHash,
                  fundedScriptPubKey |-> NoAddress,
                  reconstructedScriptPubKey |-> NoAddress]

\* buildP2TRHTLC, and the output sendDeposit makes for its address
BuildP2TRHTLC ==
  /\ taproot.fundedScriptPubKey = NoAddress
  /\ LET address == p2trAddress(InternalKey, taproot.claimLeafHash,
                                taproot.refundLeafHash) IN
     taproot' = [taproot EXCEPT
                   !.fundedScriptPubKey = addressToOutputScript(address)]
  /\ FlowRests

\* reconstructP2TRScriptPubKey from the leaf hashes on
ReconstructScriptPubKey ==
  /\ taproot.reconstructedScriptPubKey = NoAddress
  /\ LET treeRoot == computeTaprootTreeRoot(
                       <<taproot.claimLeafHash, taproot.refundLeafHash>>).root IN
     taproot' = [taproot EXCEPT
                   !.reconstructedScriptPubKey =
                      compileP2TR(computeTaprootOutputKey(InternalKey, treeRoot))]
  /\ FlowRests

BuildNext == BuildP2TRHTLC \/ ReconstructScriptPubKey

BuildSpec == BuildInit /\ [][BuildNext]_vars

(***************************************************************************)
(* The internal key on its own: deriveDeterministicInternalKey is called   *)
(* MaxKeyCalls times, for every choice of which of the digests below       *)
(* ecc.isXOnlyPoint takes for points of the curve.                         *)
(***************************************************************************)
\* the digests of the first attempts and of the last one
KeyCandidates ==
  {sha256(INTERNAL_KEY_CONSTANT)}
    \cup {sha256(INTERNAL_KEY_CONSTANT \o writeUInt32BE(k)) :
            k \in {1, 2, INTERNAL_KEY_MAX_ATTEMPTS - 1}}

\* digests no attempt hashes: of the seed followed by the bytes of 0, of an
\* attempt with its lowest byte first, and of attempt 256
KeyDecoys ==
  { sha256(INTERNAL_KEY_CONSTANT \o writeUInt32BE(0)),
    sha256(INTERNAL_KEY_CONSTANT \o writeUInt32LE(1)),
    sha256(INTERNAL_KEY_CONSTANT \o writeUInt32BE(INTERNAL_KEY_MAX_ATTEMPTS)) }

KeyInit ==
  /\ FlowAtRest
  /\ comm = NoWait
  /\ watch = NoWatch
  /\ \E xOnlyPoints \in SUBSET (KeyCandidates \cup KeyDecoys) :
       taproot = [xOnlyPoints |-> xOnlyPoints, attempt |-> 0, keys |-> <<>>]

\* one turn of the loop of deriveDeterministicInternalKey: the candidate is
\* returned, or the next attempt follows
DeriveInternalKeyAttempt ==
  /\ Len(taproot.keys) < MaxKeyCalls
  /\ taproot.attempt < INTERNAL_KEY_MAX_ATTEMPTS
  /\ LET candidate == sha256(attemptData(taproot.attempt)) IN
     taproot' =
       IF candidate \in taproot.xOnlyPoints
       THEN [taproot EXCEPT !.attempt = 0,
                            !.keys = Append(@, [error |-> None, key |-> candidate])]
       ELSE [taproot EXCEPT !.attempt = @ + 1]
  /\ FlowRests

\* the loop is over: throw new Error('Failed to derive ...')
DeriveInternalKeyFails ==
  /\ Len(taproot.keys) < MaxKeyCalls
  /\ ~(taproot.attempt < INTERNAL_KEY_MAX_ATTEMPTS)
  /\ taproot' = [taproot EXCEPT
                   !.attempt = 0,
                   !.keys = Append(@, [error |-> "InternalError", key |-> NoKey])]
  /\ FlowRests

KeyNext == DeriveInternalKeyAttempt \/ DeriveInternalKeyFails

KeySpec == KeyInit /\ [][KeyNext]_vars

(***************************************************************************)
(* waitForSubmarineData on its own (comm-client.ts).                       *)
(***************************************************************************)
MaxWaitAttempts == 4

\* what a GET /submarine can come back with: a record, the server's body
\* { error } while nothing is published, or no answer at all
FetchResponses ==
  {[transport |-> "ok", error |-> None, data |-> d] : d \in {"dataA", "dataB"}}
    \cup {[transport |-> "ok", error |-> "NoSubmarineDataYet", data |-> None],
          [transport |-> "fail", error |-> "ECONNREFUSED", data |-> None]}

\* fetchSubmarineData: axios throws, or the body's error is thrown, or the body
\* is the record
fetchSubmarineData(response) ==
  IF response.transport # "ok" THEN [error |-> response.error, data |-> None]
  ELSE IF response.error # None THEN [error |-> response.error, data |-> None]
  ELSE [error |-> None, data |-> response.data]

PollIntervals == {0, 2000}

WaitInit ==
  /\ FlowAtRest
  /\ taproot = NoTaproot
  /\ watch = NoWatch
  /\ \E maxAttempts \in 0..MaxWaitAttempts, pollIntervalMs \in PollIntervals :
       comm = [maxAttempts |-> maxAttempts, pollIntervalMs |-> pollIntervalMs,
               i |-> 0, pc |-> "loop", fetched |-> <<>>, trace |-> <<>>,
               data |-> None, error |-> None]

WaitFrame ==
  UNCHANGED <<watch, taproot, env, amountSat, cfgU, cfgL, height, htlc, rln,
              submarineData, posts, hodlStore, user, lp, calls>>

\* a turn that sleeps after every failed fetch and rethrows the first error
WaitTurnSleepsAlways ==
  /\ comm.pc = "loop"
  /\ comm.i < comm.maxAttempts
  /\ \E response \in FetchResponses :
       LET r == fetchSubmarineData(response)
           fetched == Append(comm.fetched, r)
           trace == Append(comm.trace, "fetch") IN
       comm' =
         IF r.error = None
         THEN [comm EXCEPT !.pc = "returned", !.data = r.data,
                           !.fetched = fetched, !.trace = trace]
         ELSE IF comm.i < comm.maxAttempts - 1
         THEN [comm EXCEPT !.i = @ + 1, !.fetched = fetched,
                           !.trace = Append(trace, "sleep")]
         ELSE [comm EXCEPT !.pc = "thrown", !.error = fetched[1].error,
                           !.fetched = fetched, !.trace = Append(trace, "sleep")]
  /\ WaitFrame

\* one turn of the loop of waitForSubmarineData
WaitTurn ==
  /\ comm.pc = "loop"
  /\ comm.i < comm.maxAttempts
  /\ \E response \in FetchResponses :
       LET r == fetchSubmarineData(response)
           fetched == Append(comm.fetched, r)
           trace == Append(comm.trace, "fetch") IN
       comm' =
         IF r.error = None
         THEN [comm EXCEPT !.pc = "returned", !.data = r.data,
                           !.fetched = fetched, !.trace = trace]
         ELSE IF comm.i < comm.maxAttempts - 1
         THEN [comm EXCEPT !.i = @ + 1, !.fetched = fetched,
                           !.trace = Append(trace, "sleep")]
         ELSE [comm EXCEPT !.pc = "thrown", !.error = r.error,
                           !.fetched = fetched, !.trace = trace]
  /\ WaitFrame

\* the loop is over without a turn having returned or thrown
WaitFallsThrough ==
  /\ comm.pc = "loop"
  /\ ~(comm.i < comm.maxAttempts)
  /\ comm' = [comm EXCEPT !.pc = "thrown",
                          !.error = "Failed to retrieve submarine data."]
  /\ WaitFrame

WaitNext == WaitTurn \/ WaitFallsThrough

WaitSpec == WaitInit /\ [][WaitNext]_vars

(***************************************************************************)
(* waitForFunding on its own (watch.ts), with what runDeposit returns and  *)
(* runUserFlow publishes.  The node's UTXO set may hold other outputs that *)
(* pay the HTLC address: anybody who has seen the deposit can pay to it.   *)
(***************************************************************************)
DepositAmounts ==
  {DUST_LIMIT_SAT, MIN_CLAIM_FEE_SAT, MIN_CLAIM_FEE_SAT + DUST_LIMIT_SAT}

OtherTxid == "txO"

\* the unspent outputs at the address that scantxoutset can list: the one of
\* the deposit transaction and one of another transaction
UnspentsAt(depositSat) ==
  {[txid |-> FundingTxid, vout |-> v, amount |-> depositSat, confirmations |-> c] :
     v \in {0, 1}, c \in 1..ConfsCap}
    \cup {[txid |-> OtherTxid, vout |-> v, amount |-> a, confirmations |-> c] :
            v \in {0, 1}, a \in DepositAmounts, c \in 1..ConfsCap}

\* result.unspents: nothing, or the listed outputs in the node's order
ScanResults(depositSat) ==
  {<<>>}
    \cup {<<u>> : u \in UnspentsAt(depositSat)}
    \cup {p \in UnspentsAt(depositSat) \X UnspentsAt(depositSat) :
            p[1].txid # p[2].txid}

\* the loop over result.unspents: the first output whose transaction has
\* minConfs confirmations
FirstConfirmed(unspents, minConfs) ==
  LET ok == {i \in 1..Len(unspents) : unspents[i].confirmations >= minConfs} IN
  IF ok = {} THEN NoFunding
  ELSE LET i == CHOOSE k \in ok : \A j \in ok : k <= j IN
       [txid |-> unspents[i].txid, vout |-> unspents[i].vout,
        value |-> unspents[i].amount]

WatchInit ==
  /\ FlowAtRest
  /\ taproot = NoTaproot
  /\ comm = NoWait
  /\ \E depositSat \in DepositAmounts, minConfs \in 1..ConfsCap :
       watch = [pc |-> "scan", attempt |-> 0, minConfs |-> minConfs,
                deposit |-> [txid |-> FundingTxid, amountSat |-> depositSat],
                funding |-> NoFunding, fundingTxid |-> None, fundingVout |-> 0]

WatchFrame ==
  UNCHANGED <<comm, taproot, env, amountSat, cfgU, cfgL, height, htlc, rln,
              submarineData, posts, hodlStore, user, lp, calls>>

\* one scan of waitForFunding: the first one or one of the fallback loop; when
\* it returns, runDeposit returns and runUserFlow publishes
WatchScan ==
  /\ watch.pc = "scan"
  /\ \E unspents \in ScanResults(watch.deposit.amountSat) :
       LET found == FirstConfirmed(unspents, watch.minConfs) IN
       watch' =
         IF found # NoFunding
         THEN [watch EXCEPT !.pc = "published", !.funding = found,
                            !.fundingTxid = found.txid, !.fundingVout = found.vout]
         ELSE IF watch.attempt < MaxAttempts
         THEN [watch EXCEPT !.attempt = @ + 1]
         ELSE [watch EXCEPT !.pc = "failed"]
  /\ WatchFrame

WatchNext == WatchScan

WatchSpec == WatchInit /\ [][WatchNext]_vars

(***************************************************************************)
(* Properties.                                                             *)
(***************************************************************************)
UserEnded == user.pc \in {"done", "failed"}
LpEnded == lp.pc \in {"done", "failed"}

NoDepositCalls ==
  /\ calls.invoiceHodl = 0
  /\ calls.persist = 0
  /\ calls.getBlockCount = 0
  /\ calls.sendDeposit = 0

ConfiguredTimelockTooLow ==
  cfgU.LOCKTIME_BLOCKS * BLOCK_TARGET_SEC <= cfgU.HODL_EXPIRY_SEC + TIMECUSHION_SEC

\* C1 as stated: whenever LOCKTIME_BLOCKS * 600 <= HODL_EXPIRY_SEC + 3600,
\* runDeposit makes none of its calls and fails with the configuration error.
C1_Original ==
  ConfiguredTimelockTooLow =>
    /\ NoDepositCalls
    /\ user.pc = "failed" => user.error = "ConfigError"

\* C1: when LOCKTIME_BLOCKS * 600 <= HODL_EXPIRY_SEC + 3600, runDeposit fails
\* before rln.invoiceHodl, persist, getBlockCount and the deposit; the error is
\* the configuration error when the amount passed the amount checks, which come
\* first, and the amount error otherwise.  When LOCKTIME_BLOCKS * 600 is larger,
\* the configuration error is never raised.
C1_TimelockGate ==
  /\ ConfiguredTimelockTooLow =>
       /\ NoDepositCalls
       /\ user.pc \in {"start", "failed"}
       /\ user.pc = "failed" =>
            user.error = IF amountSat < P2TR_DUST_SAT THEN "AmountBelowDust"
                         ELSE "ConfigError"
  /\ ~ConfiguredTimelockTooLow => user.error # "ConfigError"

C1_Witness ==
  /\ cfgU.LOCKTIME_BLOCKS * BLOCK_TARGET_SEC = cfgU.HODL_EXPIRY_SEC + TIMECUSHION_SEC
  /\ amountSat >= P2TR_DUST_SAT
  /\ user.pc = "failed"
  /\ user.error = "ConfigError"
  /\ NoDepositCalls

\* C2: rln.pay is called only after verifyFundingTransaction returned a funding
\* info for the fetched outpoint and template (enough confirmations, the
\* reconstructed scriptPubKey, an amount covering the invoice); when the
\* verification fails the LP flow has ended without rln.pay and without a claim
\* broadcast; the verification runs at most once.
C2_PayOnlyAfterVerify ==
  /\ calls.verify <= 1
  /\ calls.pay > 0 =>
       /\ calls.verify = 1
       /\ lp.fundingInfo.error = None
       /\ lp.fundingInfo.txid = lp.data.fundingTxid
       /\ lp.fundingInfo.vout = lp.data.fundingVout
       /\ lp.fundingInfo.confirmations >= cfgL.MIN_CONFS
       /\ lp.fundingInfo.script_pubkey_hex = reconstructP2TRScriptPubKey(lp.template)
       /\ lp.fundingInfo.amount_sat * MSAT_PER_SAT >= lp.decoded.amt_msat
  /\ (calls.verify = 1 /\ lp.fundingInfo = NoFundingInfo) =>
       /\ lp.pc = "failed"
       /\ calls.pay = 0
       /\ calls.broadcast = {}
  /\ calls.verify = 0 => calls.pay = 0 /\ calls.broadcast = {}

C2_Witness ==
  /\ calls.verify = 1
  /\ lp.pc = "failed"
  /\ lp.error = "AmountTooLow"
  /\ calls.pay = 0

\* C3: every claim transaction the LP sends carries a preimage whose SHA-256 is
\* the payment hash; when the RLN reports Succeeded with a 32-byte preimage of
\* another hash, the LP flow has failed with the preimage-mismatch error,
\* nothing was broadcast and the HTLC output is unspent.
C3_NoClaimWithWrongPreimage ==
  /\ \A b \in calls.broadcast : sha256hex(b.preimage) = b.payment_hash
  /\ ( /\ lp.finalStatus = "Succeeded"
       /\ IsValidPreimage(lp.preimage)
       /\ sha256hex(lp.preimage) # lp.decoded.payment_hash ) =>
       /\ lp.pc = "failed"
       /\ lp.error = "PreimageMismatch"
       /\ calls.broadcast = {}
       /\ htlc.state # "claimed"

C3_Witness ==
  /\ lp.finalStatus = "Succeeded"
  /\ IsValidPreimage(lp.preimage)
  /\ sha256hex(lp.preimage) # lp.decoded.payment_hash
  /\ lp.error = "PreimageMismatch"
  /\ htlc.state = "mined"

\* C4: the tLock the USER computed as tip + LOCKTIME_BLOCKS is the tLock of the
\* record it publishes; the cltv_expiry of the LP's template and the tLock the
\* claim is built with are the tLock of the record the LP fetched, so they are
\* the USER's when the record is the published one; the chain tip is read once,
\* by the USER, however high the chain has grown since.
C4_TLockVerbatim ==
  /\ user.tLock # 0 => user.tLock = StartHeight + cfgU.LOCKTIME_BLOCKS
  /\ \A d \in calls.publish : d.tLock = user.tLock
  /\ lp.template # NoTemplate => lp.template.cltv_expiry = lp.data.tLock
  /\ lp.claim # NoClaim =>
       lp.claim.script =
         reconstructP2TRScriptPubKey(
           [payment_hash |-> lp.decoded.payment_hash, lp_pubkey |-> cfgL.WIF,
            user_pubkey |-> lp.data.userRefundPubkeyHex,
            cltv_expiry |-> lp.data.tLock])
  /\ (lp.data \in calls.publish /\ lp.template # NoTemplate) =>
       lp.template.cltv_expiry = user.tLock
  /\ calls.getBlockCount <= 1
  /\ calls.getBlockCount = 1 => user.pc # "tip"

C4_Witness ==
  /\ lp.data \in calls.publish
  /\ lp.claim # NoClaim
  /\ lp.template.cltv_expiry = user.tLock
  /\ height > StartHeight + 1
  /\ htlc.state = "claimed"

\* C5 as stated: the LP has fetched a record, and so begun its VERIFIED work,
\* only after the USER has published.
C5_Original == lp.data # NoData => calls.publish # {}

\* C6 as stated: the served record is absent until the USER publishes after the
\* funding is confirmed, and from then on it is the record the USER published.
C6_Original ==
  /\ submarineData # NoData => calls.publish = {submarineData}
  /\ calls.publish # {} => user.funding # NoFunding

\* the end the happy path is meant to reach
HappyEnd ==
  /\ user.pc = "done"
  /\ user.settle = [settled |-> TRUE, status |-> "Succeeded"]
  /\ user.invoiceStatus = "Succeeded"
  /\ lp.pc = "done"
  /\ lp.result.status = "Succeeded"
  /\ lp.result.claim_txid # None
  /\ htlc.state = "claimed"

\* a polling loop ran out of attempts
PollExhausted == calls.exhausted # {}

DepositAccepted == DepositPrecheck(amountSat, cfgU) = None

C8_ClaimOnlyAfterSettle ==
  /\ \A b \in calls.broadcast : b.payment_hash \in calls.settle
  /\ lp.pc = "broadcast" => lp.decoded.payment_hash \in calls.settle
  /\ htlc.state = "claimed" => rln.payment = "settled" /\ user.H \in calls.settle

C8_Witness ==
  /\ env = "faulty"
  /\ calls.broadcast # {}
  /\ htlc.state = "claimed"
  /\ rln.payment = "settled"

\* the HTLC output waits on chain, its timelock has matured, and the LP flow
\* ended without a claim
RefundDue ==
  /\ htlc.state = "mined"
  /\ height >= user.tLock
  /\ LpEnded
  /\ lp.result.claim_txid = None

\* C9 as stated: when the LP has not claimed and the chain height has reached
\* tLock, the USER obtains a refund transaction for the HTLC output.
C9_Original ==
  RefundDue =>
    refundP2trHtlc(user.funding, user.H, UserPubkey, user.tLock).psbt_base64 # ""

\* C10 as stated: when the polls of rln.getPayment run out without one of the
\* final statuses, runUserSettleHodlInvoice returns status Timeout with
\* settled = false, and invoiceSettle is not called.
C10_Original ==
  "getPayment" \in calls.exhausted =>
    /\ user.settle = [settled |-> FALSE, status |-> "Timeout"]
    /\ calls.settle = {}

(***************************************************************************)
(* How the two processes end (index.ts: main).                             *)
(***************************************************************************)
\* the process has not exited
NoExit == -1

\* the USER process: main's catch calls process.exit(1); when runUserFlow
\* returns, the listening comm server keeps the process running
UserExitCode == IF user.pc = "failed" THEN 1 ELSE NoExit

\* the LP process: main's catch calls process.exit(1); when runLpFlow returns,
\* whatever the result, nothing is left to run and node exits with code 0
LpExitCode ==
  IF lp.pc = "failed" THEN 1
  ELSE IF lp.pc = "done" THEN 0
  ELSE NoExit

\* C11 as stated: when the polls of rln.getPaymentPreimage run out without
\* Succeeded and a preimage and without Cancelled or Failed, the LP flow
\* returns status Timeout with no claim txid, raises nothing and broadcasts
\* nothing.
C11_Original ==
  "getPaymentPreimage" \in calls.exhausted =>
    /\ lp.pc = "done"
    /\ lp.result = [status |-> "Timeout", claim_txid |-> None]
    /\ calls.broadcast = {}

\* C12 as stated: once runUserSettleHodlInvoice has ended with status
\* Cancelled, Failed or Timeout, the USER flow makes no further RLN call.
C12_Original ==
  user.settle.status \in {"Cancelled", "Failed", "Timeout"} =>
    "invoiceStatus" \notin calls.polled

\* C13 as stated: a process whose flow failed or timed out exits with code 1,
\* and a process exits with code 0 only after terminal success (USER SETTLED,
\* LP CLAIMED); an LP flow that returned Timeout, Pending, Cancelled or Failed
\* and a USER flow whose settle phase returned settled = false do not exit
\* with code 0.
C13_Original ==
  /\ lp.pc = "failed" => LpExitCode = 1
  /\ user.pc = "failed" => UserExitCode = 1
  /\ LpExitCode = 0 =>
       /\ lp.result.status = "Succeeded"
       /\ lp.result.claim_txid # None
  /\ UserExitCode = 0 => user.settle.settled
  /\ (lp.pc = "done" /\ lp.result.status \in {"Timeout", "Pending", "Cancelled", "Failed"}) =>
       LpExitCode # 0

\* C14: runUserSettleHodlInvoice calls rln.invoiceSettle at most once, with the
\* payment hash and the preimage of the stored HodlRecord, and only when its
\* poll ended on status Claimable; when it has returned, the poll having ended
\* on Claimable, invoiceSettle was called and the result is settled = true;
\* having ended on Succeeded, the result is settled = true and invoiceSettle
\* was not called; having ended on Cancelled or Failed, the result is
\* settled = false with that status and invoiceSettle was not called.
C14_SettleExactlyOnClaimable ==
  /\ Len(calls.invoiceSettle) <= 1
  /\ \A i \in 1..Len(calls.invoiceSettle) :
       /\ calls.invoiceSettle[i].payment_hash = user.H
       /\ calls.invoiceSettle[i] =
            [payment_hash |-> hodlStore.payment_hash,
             payment_preimage |-> hodlStore.preimage]
  /\ Len(calls.invoiceSettle) = 1 => user.status = "Claimable"
  /\ (user.status = "Claimable" /\ user.pc # "settle") => Len(calls.invoiceSettle) = 1
  /\ user.settle # NoSettle =>
       CASE user.status = "Claimable" ->
              /\ Len(calls.invoiceSettle) = 1
              /\ user.settle = [settled |-> TRUE, status |-> "Succeeded"]
         [] user.status = "Succeeded" ->
              /\ calls.invoiceSettle = <<>>
              /\ user.settle = [settled |-> TRUE, status |-> "Succeeded"]
         [] user.status \in {"Cancelled", "Failed"} ->
              /\ calls.invoiceSettle = <<>>
              /\ user.settle = [settled |-> FALSE, status |-> user.status]
         [] OTHER ->
              /\ calls.invoiceSettle = <<>>
              /\ ~user.settle.settled

C14_Witness ==
  /\ Len(calls.invoiceSettle) = 1
  /\ calls.invoiceSettle[1].payment_preimage = user.preimage
  /\ user.status = "Claimable"
  /\ user.settle = [settled |-> TRUE, status |-> "Succeeded"]
  /\ rln.payment = "settled"

\* the funding transaction is known to the node and the template's keys are
\* valid: the verifier has come to its confirmation check
ReachesConfirmationCheck ==
  /\ IsValidCompressedPubkey(lp.template.lp_pubkey)
  /\ IsValidCompressedPubkey(lp.template.user_pubkey)
  /\ TxKnown(lp.data.fundingTxid)

\* C15 as stated: for every minConfs >= 0, 0 included, the confirmation check
\* of verifyFundingTransaction rejects exactly when confirmations < minConfs.
C15_Original ==
  (calls.verify = 1 /\ ReachesConfirmationCheck) =>
    (lp.error = "InsufficientConfirmations"
       <=> Confirmations(height, htlc) < cfgL.MIN_CONFS)

\* C15: the confirmation check of verifyFundingTransaction rejects the funding
\* transaction exactly when it has no confirmation (it is not mined) or fewer
\* than minConfs, and lets it pass exactly when confirmations >= 1 and
\* confirmations >= minConfs; for minConfs >= 1 that is confirmations >= minConfs.
C15_ConfirmationCheck ==
  (calls.verify = 1 /\ ReachesConfirmationCheck) =>
    /\ lp.error = "InsufficientConfirmations"
         <=> Confirmations(height, htlc) < Max(1, cfgL.MIN_CONFS)
    /\ cfgL.MIN_CONFS >= 1 =>
         (lp.error = "InsufficientConfirmations"
            <=> Confirmations(height, htlc) < cfgL.MIN_CONFS)
    /\ lp.fundingInfo # NoFundingInfo =>
         /\ lp.fundingInfo.confirmations >= cfgL.MIN_CONFS
         /\ lp.fundingInfo.confirmations = Confirmations(height, htlc)

C15_Witness ==
  /\ calls.verify = 1
  /\ cfgL.MIN_CONFS = 0
  /\ htlc.state = "mempool"
  /\ Confirmations(height, htlc) = 0
  /\ lp.error = "InsufficientConfirmations"

\* the confirmation check let the funding transaction pass
PassedConfirmationCheck ==
  /\ calls.verify = 1
  /\ ReachesConfirmationCheck
  /\ lp.error # "InsufficientConfirmations"

C17_AmountTooLowIffBelowCeil ==
  PassedConfirmationCheck =>
    /\ lp.error = "AmountTooLow"
         <=> htlc.value * MSAT_PER_SAT < lp.decoded.amt_msat
    /\ htlc.spk = reconstructP2TRScriptPubKey(lp.template) =>
         (lp.error = None <=> htlc.value * MSAT_PER_SAT >= lp.decoded.amt_msat)
    /\ (lp.decoded.amt_msat = 20000001 /\ htlc.value < 20001) => lp.error = "AmountTooLow"
    /\ (lp.decoded.amt_msat = 20000000 /\ htlc.value = 19999) => lp.error = "AmountTooLow"

C17_Witness ==
  /\ PassedConfirmationCheck
  /\ lp.decoded.amt_msat = 20000001
  /\ htlc.value = 20000
  /\ htlc.spk = reconstructP2TRScriptPubKey(lp.template)
  /\ lp.error = "AmountTooLow"
  /\ calls.pay = 0

\* verifyFundingTransaction run now, with the arguments of the LP's run
VerifyAgain ==
  verifyFundingTransaction(
    [txid |-> lp.data.fundingTxid, vout |-> lp.data.fundingVout],
    lp.template, lp.decoded.amt_msat, cfgL.MIN_CONFS)

\* the LP's verification returned and the funding output is still unspent
VerifiedAndUnspent ==
  /\ lp.fundingInfo # NoFundingInfo
  /\ htlc.state = "mined"

\* C18 as stated: a second run of verifyFundingTransaction with the same
\* arguments on the same confirmed, unspent funding output returns a result
\* equal to the first, also when blocks were mined in between.
C18_Original == VerifiedAndUnspent => VerifyAgain = lp.fundingInfo

\* C18: a second run of verifyFundingTransaction with the same arguments on the
\* same confirmed, unspent funding output succeeds and returns the same
\* outpoint, amount and scriptPubKeys as the first; its confirmations are the
\* ones at the time of the second run, never fewer than the first's, so the
\* results are equal when the confirmations have not changed.
C18_VerifierIdempotence ==
  VerifiedAndUnspent =>
    /\ VerifyAgain.error = None
    /\ [VerifyAgain EXCEPT !.confirmations = lp.fundingInfo.confirmations]
         = lp.fundingInfo
    /\ VerifyAgain.confirmations = Confirmations(height, htlc)
    /\ VerifyAgain.confirmations >= lp.fundingInfo.confirmations

C18_Witness ==
  /\ VerifiedAndUnspent
  /\ VerifyAgain.error = None
  /\ VerifyAgain.confirmations > lp.fundingInfo.confirmations
  /\ VerifyAgain.amount_sat = lp.fundingInfo.amount_sat

\* C19: the HodlRecord is persisted once, after rln.invoiceHodl returned the
\* invoice and before the chain tip is read and the deposit is sent; the record
\* holds the hash, the preimage and the invoice of the run; when persisting
\* fails the USER flow has failed with that error, nothing was stored, no
\* deposit was sent and no SubmarineData is published.
C19_PersistBeforeChain ==
  /\ calls.persist <= 1
  /\ calls.persist > 0 =>
       /\ calls.invoiceHodl = 1
       /\ user.invoice # NoInvoice
  /\ hodlStore # NoRecord =>
       /\ hodlStore.payment_hash = user.H
       /\ hodlStore.preimage = user.preimage
       /\ hodlStore.invoice = user.invoice
  /\ (calls.getBlockCount > 0 \/ calls.sendDeposit > 0 \/ htlc # NoHtlc) =>
       /\ calls.persist = 1
       /\ hodlStore # NoRecord
  /\ calls.publish # {} => hodlStore # NoRecord
  /\ user.error = "PersistError" =>
       /\ user.pc = "failed"
       /\ hodlStore = NoRecord
       /\ calls.getBlockCount = 0
       /\ calls.sendDeposit = 0
       /\ htlc = NoHtlc
       /\ calls.publish = {}

C19_Witness ==
  /\ user.error = "PersistError"
  /\ calls.invoiceHodl = 1
  /\ calls.persist = 1
  /\ rln.invoice # NoInvoice
  /\ LpEnded

\* C20: the USER makes each of the calls invoiceHodl, persist, getBlockCount
\* and sendDeposit at most once and publishes at most once, in this order:
\* persist after invoiceHodl returned the invoice, getBlockCount after the
\* record was stored, sendDeposit after the timelock was computed, the first
\* poll for the funding after the deposit was broadcast, the publication after
\* a poll found the funding, the first getPayment poll after the publication;
\* a step that failed is followed by none of the later ones.
C20_UserStepOrder ==
  /\ calls.invoiceHodl <= 1
  /\ calls.persist <= 1
  /\ calls.getBlockCount <= 1
  /\ calls.sendDeposit <= 1
  /\ Cardinality(calls.publish) <= 1
  /\ calls.persist > 0 =>
       /\ calls.invoiceHodl = 1
       /\ user.invoice # NoInvoice
  /\ calls.getBlockCount > 0 =>
       /\ calls.persist = 1
       /\ hodlStore # NoRecord
  /\ calls.sendDeposit > 0 =>
       /\ calls.getBlockCount = 1
       /\ user.tLock # 0
  /\ "waitForFunding" \in calls.polled =>
       /\ calls.sendDeposit = 1
       /\ htlc.state # "none"
  /\ calls.publish # {} =>
       /\ "waitForFunding" \in calls.polled
       /\ user.funding # NoFunding
  /\ "getPayment" \in calls.polled => calls.publish # {}
  /\ user.error = "DepositError" => calls.polled = {} /\ calls.publish = {}
  /\ user.error = "FundingTimeout" =>
       /\ calls.publish = {}
       /\ "getPayment" \notin calls.polled

C20_Witness ==
  /\ user.pc = "done"
  /\ calls.invoiceHodl = 1
  /\ calls.persist = 1
  /\ calls.getBlockCount = 1
  /\ calls.sendDeposit = 1
  /\ Cardinality(calls.publish) = 1
  /\ {"waitForFunding", "getPayment"} \subseteq calls.polled

\* the loop variable of the loop each process is in stays below the loop's
\* number of attempts (waitForFunding: after its first scan, the loop's scans)
AttemptsWithinBounds ==
  /\ user.attempt <= MaxAttempts
  /\ user.pc \in {"pollPayment", "pollStatus"} => user.attempt < MaxAttempts
  /\ lp.attempt < MaxAttempts

\* C21: every polling loop (waitForSubmarineData, waitForFunding, the
\* getPayment poll, runUserWaitInvoiceStatus, the getPaymentPreimage poll)
\* makes at most its number of attempts, and whatever the adapters return,
\* each call returning, the USER flow and the LP flow both end: they return
\* or fail.
C21_BoundedPollsTerminate ==
  /\ []AttemptsWithinBounds
  /\ <>[](UserEnded /\ LpEnded)

C21_Witness ==
  /\ env = "faulty"
  /\ UserEnded
  /\ LpEnded
  /\ {"getPayment", "invoiceStatus", "fetchSubmarineData"} \subseteq calls.exhausted
  /\ user.attempt = MaxAttempts - 1

\* a PSBT without a transaction: what the empty string stands for
NoPsbt == [nLockTime |-> 0, inputs |-> <<>>, outputs |-> <<>>, tapLeafScript |-> <<>>]

\* the PSBT a psbt_base64 string of refundP2trHtlc carries; the builder
\* returns the empty string only
psbtOf(psbt_base64) == CASE psbt_base64 = "" -> NoPsbt

\* the refund builder called for the funding output the USER found
RefundResult == refundP2trHtlc(user.funding, user.H, UserPubkey, user.tLock)

\* C22 as stated: the refund builder called for an HTLC output returns a PSBT
\* with nLockTime = tLock, one input with a sequence below 0xffffffff and the
\* refund tapleaf with its control block attached, and one output of
\* utxo.value - feeSat.
C22_Original ==
  user.funding # NoFunding =>
    LET psbt == psbtOf(RefundResult.psbt_base64) IN
    /\ psbt.nLockTime = user.tLock
    /\ Len(psbt.inputs) = 1
    /\ Len(psbt.outputs) = 1
    /\ psbt.tapLeafScript = buildRefundTapscript(user.tLock, UserPubkey)

\* the items a node reads from a serialised witness: the count, then each item
\* after its length
scriptWitnessItems(w) == [i \in 1..w[1] |-> w[2 * i + 1]]

\* C23: the witness of the input of every claim transaction the LP builds
\* holds exactly four items, in this order: the LP's signature, the preimage,
\* the claim script, the control block; the preimage is a 32-byte value whose
\* SHA-256 is the payment hash, and the claim script is the claim leaf built
\* from the payment hash and the LP's key.
C23_ClaimWitnessStack ==
  lp.claim # NoClaim =>
    LET w == lp.claim.finalScriptWitness
        items == scriptWitnessItems(w) IN
    /\ w[1] = 4
    /\ Len(w) = 9
    /\ \A i \in 1..4 : w[2 * i] = Len(items[i])
    /\ items[1] = "sig:" \o getXOnlyHex(deriveTaprootFromWIF(cfgL.WIF))
    /\ items[2] = lp.preimage
    /\ IsValidPreimage(items[2])
    /\ sha256hex(items[2]) = lp.decoded.payment_hash
    /\ items[3] = buildClaimTapscript(lp.decoded.payment_hash,
                                      deriveTaprootFromWIF(cfgL.WIF))
    /\ items[4] = "controlBlock"
    /\ items = lp.claim.witness

C23_Witness ==
  /\ lp.pc = "done"
  /\ htlc.state = "claimed"
  /\ lp.claim.finalScriptWitness[1] = 4
  /\ lp.claim.finalScriptWitness[5] = user.preimage

\* the poll ended on Succeeded with a preimage: claimP2trHtlc was called
ClaimCalled == lp.finalStatus = "Succeeded" /\ lp.preimage # None

\* C24: claimP2trHtlc takes feeSat = max(1000, ceil(173.5 * feeRate)), which is
\* 1000, 1041 and 1215 sat at 1, 6 and 7 sat/vB, and outputValue = utxo.value
\* - feeSat; called with a preimage of the payment hash, it fails with the
\* dust-after-fee error exactly when outputValue < 330, and then nothing is
\* broadcast; every transaction it sends has one output of exactly
\* outputValue, at least 330, so output value + fee = input value.
C24_ClaimFeeAndDust ==
  LET feeRate == cfgL.FEE_RATE_SAT_PER_VB
      feeSat == Max(1000, CeilDiv(347 * feeRate, 2))
      outputValue == lp.fundingInfo.amount_sat - feeSat IN
  /\ feeSat = CASE feeRate = 1 -> 1000 [] feeRate = 6 -> 1041
                [] feeRate = 7 -> 1215 [] OTHER -> feeSat
  /\ (ClaimCalled /\ lp.pc # "pollPreimage"
        /\ ClaimPrecheck(lp.decoded.payment_hash, lp.preimage, cfgL.WIF) = None) =>
       /\ lp.error = "DustAfterFee" <=> outputValue < 330
       /\ outputValue < 330 =>
            /\ lp.pc = "failed"
            /\ lp.claim = NoClaim
            /\ calls.broadcast = {}
            /\ htlc.state = "mined"
       /\ outputValue >= 330 => lp.claim # NoClaim
  /\ lp.error = "DustAfterFee" => ClaimCalled
  /\ lp.claim # NoClaim =>
       /\ lp.claim.fee_sat = feeSat
       /\ lp.claim.value = outputValue
       /\ lp.claim.value >= 330
       /\ lp.claim.value + lp.claim.fee_sat = htlc.value
       /\ lp.claim.input = FundingTxid

C24_Witness ==
  /\ cfgL.FEE_RATE_SAT_PER_VB = 7
  /\ htlc.value = 1545
  /\ htlc.state = "claimed"
  /\ lp.claim.fee_sat = 1215
  /\ lp.claim.value = 330

\* C25: the Taproot tree root computed from [claimLeafHash, refundLeafHash] and
\* the one computed from [refundLeafHash, claimLeafHash] are the same value,
\* the TapBranch hash of the smaller hash followed by the larger one in the
\* order of their bytes, also when the two hashes are equal; so are the two
\* scriptPubKeys.
C25_RootIgnoresLeafOrder ==
  /\ (taproot.treeRoot # NoRoot /\ taproot.swappedRoot # NoRoot) =>
       /\ taproot.treeRoot = taproot.swappedRoot
       /\ taproot.scriptPubKey = taproot.swappedScriptPubKey
  /\ \A root \in {taproot.treeRoot, taproot.swappedRoot} \ {NoRoot} :
       \E lo \in {taproot.claimLeafHash, taproot.refundLeafHash},
          hi \in {taproot.claimLeafHash, taproot.refundLeafHash} :
         /\ {lo, hi} = {taproot.claimLeafHash, taproot.refundLeafHash}
         /\ BufferCompare(lo, hi) <= 0
         /\ root = <<"TapBranch", lo \o hi>>

C25_Witness ==
  /\ BufferCompare(taproot.claimLeafHash, taproot.refundLeafHash) > 0
  /\ taproot.claimLeafHash[1] = taproot.refundLeafHash[1]
  /\ taproot.treeRoot # NoRoot
  /\ taproot.treeRoot = taproot.swappedRoot
  /\ taproot.scriptPubKey = taproot.swappedScriptPubKey

\* what attempt k hashes: the seed alone, or the seed and then k in four
\* bytes, the highest first (k < 256: three zero bytes and k)
KeyData(k) ==
  IF k = 0 THEN <<"HODL_INVOICE_P2TR_HTLC_INTERNAL_KEY_v0">>
  ELSE <<"HODL_INVOICE_P2TR_HTLC_INTERNAL_KEY_v0", 0, 0, 0, k>>

\* the attempts in 0..255 whose digest is a point of the curve
ValidAttempts == {k \in 0..255 : <<"sha256", KeyData(k)>> \in taproot.xOnlyPoints}

\* C26: every call of deriveDeterministicInternalKey returns SHA-256(data_k)
\* for the least attempt k in 0..255 whose digest is a valid x-only point,
\* data_0 being the seed alone and data_k the seed followed by k as a
\* big-endian uint32; it fails exactly when none of the 256 digests is valid;
\* all calls return the same value.
C26_LeastValidAttempt ==
  /\ taproot.attempt <= 256
  /\ \A k \in ValidAttempts : taproot.attempt <= k
  /\ \A i \in 1..Len(taproot.keys) :
    /\ taproot.keys[i].error = "InternalError" <=> ValidAttempts = {}
    /\ taproot.keys[i].error \in {None, "InternalError"}
    /\ ValidAttempts # {} =>
         \E k \in ValidAttempts :
           /\ \A j \in ValidAttempts : k <= j
           /\ taproot.keys[i].key = <<"sha256", KeyData(k)>>
    /\ taproot.keys[i] = taproot.keys[1]

C26_Witness ==
  /\ Len(taproot.keys) = MaxKeyCalls
  /\ ValidAttempts = {2, 255}
  /\ taproot.keys[1].key = <<"sha256", KeyData(2)>>
  /\ taproot.keys[MaxKeyCalls] = taproot.keys[1]
  /\ <<"sha256", <<"HODL_INVOICE_P2TR_HTLC_INTERNAL_KEY_v0", 0, 0, 0, 0>>>>
       \in taproot.xOnlyPoints

C28_PayFailedEndsFlow ==
  /\ calls.payResult = "Failed" =>
       /\ lp.pc = "done"
       /\ lp.result = [status |-> "Failed", claim_txid |-> None]
       /\ "getPaymentPreimage" \notin calls.polled
       /\ calls.claim = <<>>
       /\ lp.claim = NoClaim
       /\ calls.broadcast = {}
       /\ htlc.state # "claimed"
  /\ calls.payResult = "NotFailed" =>
       \/ lp.pc = "pollPreimage" /\ lp.attempt = 0
       \/ "getPaymentPreimage" \in calls.polled
  /\ "getPaymentPreimage" \in calls.polled => calls.payResult = "NotFailed"

C28_Witness ==
  /\ calls.payResult = "Failed"
  /\ calls.pay = 1
  /\ lp.pc = "done"
  /\ lp.result.status = "Failed"
  /\ htlc.state = "mined"
  /\ user.pc = "done"

\* C29: in a USER run there is one payment hash H = SHA-256(preimage): the
\* invoice made by rln.invoiceHodl is for H, the persisted HodlRecord has
\* payment_hash H and a preimage that hashes to it, the claim leaf of the HTLC
\* address and of the funded output commits to H, the published invoice is
\* for H, and invoiceSettle is called for H; at most one record is persisted,
\* and exactly one once runDeposit has gone past persisting.
C29_OnePaymentHash ==
  /\ user.H # NoHash =>
       /\ user.H = sha256hex(user.preimage)
       /\ rln.invoice # NoInvoice => rln.invoice.h = user.H
       /\ user.invoice.h = user.H
       /\ hodlStore # NoRecord =>
            /\ hodlStore.payment_hash = user.H
            /\ sha256hex(hodlStore.preimage) = hodlStore.payment_hash
            /\ hodlStore.invoice.h = user.H
       /\ user.address # NoAddress =>
            /\ user.address[2] = buildClaimTapscript(user.H, cfgU.LP_PUBKEY_HEX)
            /\ user.address[2][2] = user.H
       /\ htlc # NoHtlc => htlc.spk[2][2] = user.H
       /\ \A d \in calls.publish : decode(d.invoice).payment_hash = user.H
       /\ calls.settle \subseteq {user.H}
       /\ \A i \in 1..Len(calls.invoiceSettle) :
            /\ calls.invoiceSettle[i].payment_hash = user.H
            /\ sha256hex(calls.invoiceSettle[i].payment_preimage) = user.H
  /\ user.H = NoHash => hodlStore = NoRecord /\ htlc = NoHtlc /\ calls.persist = 0
  /\ calls.persist <= 1
  /\ user.pc \notin {"start", "persist", "failed"} =>
       /\ calls.persist = 1
       /\ hodlStore # NoRecord

C29_Witness ==
  /\ user.pc = "done"
  /\ calls.persist = 1
  /\ hodlStore.payment_hash = user.H
  /\ htlc.spk[2][2] = user.H
  /\ Len(calls.invoiceSettle) = 1
  /\ calls.invoiceSettle[1].payment_hash = sha256hex(user.preimage)
  /\ rln.payment = "settled"
  /\ htlc.state = "claimed"

\* C30: in a run of the LP flow rln.pay is called at most once and the claim
\* builder at most once; the builder is called only after rln.pay was called
\* and a getPaymentPreimage poll returned Succeeded with a preimage, and it is
\* called with that preimage, the funding txid and vout of the SubmarineData
\* the LP fetched, and the amount_sat the verifier returned as input value.
C30_PayOnceClaimOnce ==
  /\ calls.pay <= 1
  /\ Len(calls.claim) <= 1
  /\ \A i \in 1..Len(calls.claim) :
       LET c == calls.claim[i] IN
       /\ calls.pay = 1
       /\ calls.payResult = "NotFailed"
       /\ "getPaymentPreimage" \in calls.polled
       /\ lp.finalStatus = "Succeeded"
       /\ lp.preimage # None
       /\ c.preimage = lp.preimage
       /\ c.txid = lp.data.fundingTxid
       /\ c.vout = lp.data.fundingVout
       /\ c.value = lp.fundingInfo.amount_sat
       /\ lp.pc \in {"broadcast", "done", "failed"}
       /\ lp.claim # NoClaim =>
            /\ lp.claim.input = c.txid
            /\ lp.claim.value + lp.claim.fee_sat = c.value
  /\ lp.claim # NoClaim => Len(calls.claim) = 1

C30_Witness ==
  /\ lp.pc = "done"
  /\ calls.pay = 1
  /\ Len(calls.claim) = 1
  /\ calls.claim[1].txid = lp.data.fundingTxid
  /\ calls.claim[1].value = lp.fundingInfo.amount_sat
  /\ calls.claim[1].preimage = user.preimage
  /\ lp.result.status = "Succeeded"
  /\ htlc.state = "claimed"

\* C31: waitForSubmarineData makes at most maxAttempts fetches; it returns
\* the record of the first fetch that reports neither not-ready nor an error;
\* it sleeps only between two fetches, never after the last one; and when all
\* maxAttempts fetches have failed it fails with the error of the last fetch.
C31_WaitForSubmarineData ==
  LET n == Len(comm.fetched)
      sleeps == {k \in 1..Len(comm.trace) : comm.trace[k] = "sleep"} IN
  /\ n <= comm.maxAttempts
  /\ \A k \in 1..Len(comm.trace) :
       comm.trace[k] = (IF k % 2 = 1 THEN "fetch" ELSE "sleep")
  /\ \A k \in sleeps : k < Len(comm.trace) \/ comm.pc = "loop"
  /\ \A k \in 1..(n - 1) : comm.fetched[k].error # None
  /\ comm.pc = "returned" =>
       /\ n >= 1
       /\ comm.fetched[n].error = None
       /\ comm.data = comm.fetched[n].data
       /\ comm.error = None
       /\ Cardinality(sleeps) = n - 1
  /\ comm.pc = "thrown" /\ comm.maxAttempts >= 1 =>
       /\ n = comm.maxAttempts
       /\ comm.fetched[n].error # None
       /\ comm.error = comm.fetched[n].error
       /\ comm.data = None
       /\ Cardinality(sleeps) = n - 1
  /\ comm.pc = "loop" /\ n > 0 => comm.fetched[n].error # None

\* all of three fetches failed, with different errors, and the last one's is thrown
C31_Witness ==
  /\ comm.pc = "thrown"
  /\ comm.maxAttempts = 3
  /\ Len(comm.fetched) = 3
  /\ comm.fetched[1].error # comm.fetched[3].error
  /\ comm.error = comm.fetched[3].error
  /\ comm.trace = <<"fetch", "sleep", "fetch", "sleep", "fetch">>

\* C32 as stated: when the LP calls the claim builder, the public key derived
\* from its WIF is the lp_pubkey of the template it verified, and the
\* scriptPubKey the claim spends is the one verifyFundingTransaction compared
\* with the chain.
C32_Original ==
  Len(calls.claim) > 0 =>
    /\ deriveTaprootFromWIF(cfgL.WIF) = lp.template.lp_pubkey
    /\ lp.claim # NoClaim =>
         /\ lp.claim.script = reconstructP2TRScriptPubKey(lp.template)
         /\ lp.claim.script = htlc.spk
         /\ lp.claim.witness[3] =
              buildClaimTapscript(lp.template.payment_hash, lp.template.lp_pubkey)

\* C33 as stated: every funding output verifyFundingTransaction has accepted
\* leaves at least the dust limit after the claim fee, and the claim of an LP
\* that has verified, paid and received the preimage never fails with the
\* dust-after-fee error.
C33_Original ==
  /\ (lp.fundingInfo # NoFundingInfo /\ lp.fundingInfo.error = None) =>
       lp.fundingInfo.amount_sat - estimateClaimFeeSat(cfgL.FEE_RATE_SAT_PER_VB)
         >= DUST_LIMIT_SAT
  /\ lp.error # "DustAfterFee"

\* C34 as stated: whenever the LP calls rln.pay, the chain height is strictly
\* below the tLock of the template it has verified.
C34_Original == [][LpPay => height < lp.template.cltv_expiry]_vars

\* C35 as stated: the funding outpoint runDeposit returns and runUserFlow
\* publishes is an output of the deposit transaction of the same run and pays
\* amountSat, also when other unspent outputs exist at the HTLC address.
C35_Original ==
  watch.pc = "published" =>
    /\ watch.funding.txid = watch.deposit.txid
    /\ watch.fundingTxid = watch.deposit.txid
    /\ watch.funding.value = watch.deposit.amountSat

\* C36: an amount that is not positive or is below 330 is rejected before
\* runDeposit has any effect; for every accepted amount the invoice is for
\* exactly 1000 * amountSat msat and the deposit pays exactly amountSat, so
\* the verifier's ceil(amtMsat / 1000) equals the output's value and its amount
\* check passes for the honest deposit.
C36_AmountsAgree ==
  /\ (amountSat <= 0 \/ amountSat < 330) =>
       /\ NoDepositCalls
       /\ rln.invoice = NoInvoice
       /\ hodlStore = NoRecord
       /\ htlc = NoHtlc
       /\ submarineData = NoData
       /\ user.pc \in {"start", "failed"}
  /\ rln.invoice # NoInvoice =>
       /\ amountSat >= 330
       /\ rln.invoice.msat = 1000 * amountSat
       /\ decode(user.invoice).amt_msat = 1000 * amountSat
  /\ htlc # NoHtlc =>
       /\ htlc.value = amountSat
       /\ CeilDiv(decode(user.invoice).amt_msat, 1000) = htlc.value
  /\ lp.decoded # NoDecoded => msatToSat(lp.decoded.amt_msat) = amountSat
  /\ (lp.fundingInfo # NoFundingInfo /\ lp.fundingInfo.error = None) =>
       lp.fundingInfo.amount_sat = msatToSat(lp.decoded.amt_msat)
  /\ lp.error # "AmountTooLow"

C36_Witness ==
  /\ amountSat = 331
  /\ rln.invoice.msat = 331000
  /\ htlc.value = 331
  /\ lp.fundingInfo # NoFundingInfo
  /\ lp.fundingInfo.error = None
  /\ lp.fundingInfo.amount_sat = 331
  /\ calls.pay = 1

\* C37: for the same two leaves and the deterministic internal key, the
\* scriptPubKey of the address buildP2TRHTLC returns (the library's script
\* tree) is the scriptPubKey reconstructP2TRScriptPubKey computes by hand
\* (sorted TapBranch, TapTweak of the internal key), so the script comparison
\* of the verifier passes for an honest deposit.
C37_BuiltEqualsReconstructed ==
  (/\ taproot.fundedScriptPubKey # NoAddress
   /\ taproot.reconstructedScriptPubKey # NoAddress) =>
    taproot.fundedScriptPubKey = taproot.reconstructedScriptPubKey

\* both were computed, from a claim leaf hash above the refund leaf hash
C37_Witness ==
  /\ taproot.fundedScriptPubKey # NoAddress
  /\ taproot.reconstructedScriptPubKey # NoAddress
  /\ BufferCompare(taproot.claimLeafHash, taproot.refundLeafHash) > 0
  /\ taproot.fundedScriptPubKey = taproot.reconstructedScriptPubKey

\* what the RLN and the LP have from the USER while invoiceSettle has not
\* been called, given the payment hash alone: the invoice made for it and the
\* published record, and no preimage
SeenBeforeSettle(h) ==
  /\ rln.invoice \in {NoInvoice, Invoice(h, 1000 * amountSat)}
  /\ rln.preimage = None
  /\ calls.publish \subseteq
       {[invoice |-> Invoice(h, 1000 * amountSat), fundingTxid |-> user.funding.txid,
         fundingVout |-> user.funding.vout, userRefundPubkeyHex |-> UserPubkey,
         tLock |-> user.tLock]}
  /\ calls.broadcast = {}

\* C38: until the USER has seen its inbound payment Claimable it sends the
\* preimage to nobody: what the RLN holds and what is published are built from
\* the payment hash alone (the same for any two preimages with that hash), the
\* published record has neither a preimage nor a payment-hash field, and the
\* preimage leaves the USER only in the invoiceSettle request, which follows
\* a poll that returned Claimable.
C38_PreimageConfidential ==
  /\ Len(calls.invoiceSettle) = 0 =>
       /\ SeenBeforeSettle(user.H)
       /\ lp.preimage = None \/ sha256hex(lp.preimage) # user.H
  /\ \A d \in calls.publish :
       DOMAIN d = {"invoice", "fundingTxid", "fundingVout", "userRefundPubkeyHex", "tLock"}
  /\ Len(calls.invoiceSettle) > 0 =>
       /\ user.status = "Claimable"
       /\ "getPayment" \in calls.polled
  /\ rln.preimage # None => Len(calls.invoiceSettle) > 0

\* the LP has paid and polls, the payment is held, nothing was settled
C38_Witness ==
  /\ Len(calls.invoiceSettle) = 0
  /\ calls.publish # {}
  /\ rln.payment = "held"
  /\ rln.preimage = None
  /\ lp.pc = "pollPreimage"
  /\ hodlStore.preimage = user.preimage
  /\ user.pc = "pollPayment"

\* ---------------------------------------------------------------------------
\* C39
\* ---------------------------------------------------------------------------

\* the answers of rln.getPayment that make an attempt fail: the request threw,
\* or the payment it returned is not inbound (whatever status it carries)
FailedPolls == {PaymentThrow} \cup [inbound : {FALSE}, status : PaymentStatuses]

\* what a failed attempt does: the status stays, invoiceSettle is not called,
\* and the poll goes on with one attempt less, or ends only for want of attempts
FailedPollEffect ==
  /\ user'.status = user.status
  /\ user'.pc # "settle"
  /\ calls'.invoiceSettle = calls.invoiceSettle
  /\ IF user.attempt + 1 < MaxAttempts
     THEN user'.pc = "pollPayment" /\ user'.attempt = user.attempt + 1
     ELSE /\ user'.pc = "pollStatus"
          /\ user'.settle = [settled |-> FALSE, status |-> user.status]
          /\ "getPayment" \in calls'.exhausted

\* C39: in the poll of runUserSettleHodlInvoice an attempt whose getPayment
\* fails, or whose payment is not inbound (a Claimable one included), uses up
\* one attempt, keeps the status recorded so far, does not end the poll except
\* by running out of attempts, and does not lead to invoiceSettle; when every
\* attempt failed so, the result is status Timeout with settled = FALSE
C39_FailedPollsNeverSettle ==
  /\ [][\A r \in FailedPolls : UserPollPaymentWith(r) => FailedPollEffect]_vars
  /\ [](("getPayment" \in calls.exhausted /\ user.status = "Timeout")
          => /\ user.settle = [settled |-> FALSE, status |-> "Timeout"]
             /\ Len(calls.invoiceSettle) = 0)

\* the payment is held on the node, ready to be claimed, yet every attempt of
\* the poll failed: the result is Timeout, unsettled, and nothing was settled
C39_Witness ==
  /\ env # "happy"
  /\ rln.payment = "held"
  /\ "getPayment" \in calls.exhausted
  /\ user.status = "Timeout"
  /\ user.settle = [settled |-> FALSE, status |-> "Timeout"]
  /\ Len(calls.invoiceSettle) = 0

====
